---- MODULE Spec2Model ----
(***************************************************************************)
(* A model of bender-config: the configuration document (src/src/lib.rs),  *)
(* its defaults, its TOML round trip, and the interactive wizard           *)
(* (src/src/wizard.rs: differ; src/src/lib.rs: the Dialog impls).          *)
(*                                                                         *)
(* Texts are sequences of one-character strings.  Integers are kept as     *)
(* sign + decimal magnitude so that the 64 bit ranges of usize/u64/isize   *)
(* and of TOML's i64 are the real ones.  An Option is <<>> (None) or <<v>> *)
(* (Some(v)); a Result is [ok |-> TRUE, v |-> ..] or [ok |-> FALSE].       *)
(***************************************************************************)
EXTENDS Integers, Sequences, FiniteSets, TLC

\* ------------------------------------------------------------------ bounds
\* number of fields in which a candidate document differs from the current one
MaxDiff == 1
\* number of values the operator types in (instead of keeping) in one run
MaxOverrides == 1
\* number of leaves in which a document held by a caller differs from the
\* default document
MaxSet == 1
\* number of distinct worker ids the model distinguishes
MaxUuid == 4
\* number of single leaves missing from a stored text (whole sections and the
\* whole document can be missing besides)
MaxAbsent == 1
\* number of system calls of one run that fail for a reason other than
\* permissions or the state of the file system (I/O error, disk full)
MaxFaults == 1
MaxCols == 16
MaxText == 3
MaxReads == 2

\* ------------------------------------------------------------- Option/Result
None == <<>>
Some(v) == <<v>>
IsSome(o) == o # <<>>
Unwrap(o) == o[1]
Ok(v) == [ok |-> TRUE, v |-> v]
Err == [ok |-> FALSE]

\* ------------------------------------------------------------------ integers
Digits == <<"0", "1", "2", "3", "4", "5", "6", "7", "8", "9">>
DigitChars == {Digits[i] : i \in 1..10}
DigitVal(c) == (CHOOSE i \in 1..10 : Digits[i] = c) - 1

RECURSIVE MagOf(_)
\* the decimal digits of a natural number, most significant first
MagOf(n) == IF n < 10 THEN <<n>> ELSE Append(MagOf(n \div 10), n % 10)
\* an integer literal of the source
Num(n) == IF n < 0 THEN [neg |-> TRUE, mag |-> MagOf(0 - n)]
                   ELSE [neg |-> FALSE, mag |-> MagOf(n)]

RECURSIVE StripZeros(_)
StripZeros(m) == IF Len(m) > 1 /\ m[1] = 0 THEN StripZeros(Tail(m)) ELSE m

RECURSIVE MagLess(_, _)
\* a < b for magnitudes without leading zeros
MagLess(a, b) ==
    IF Len(a) # Len(b) THEN Len(a) < Len(b)
    ELSE IF a = <<>> THEN FALSE
    ELSE IF a[1] # b[1] THEN a[1] < b[1]
    ELSE MagLess(Tail(a), Tail(b))
MagLeq(a, b) == a = b \/ MagLess(a, b)

\* 2^64 - 1, 2^63 - 1 and 2^63
U64MaxMag == <<1, 8, 4, 4, 6, 7, 4, 4, 0, 7, 3, 7, 0, 9, 5, 5, 1, 6, 1, 5>>
I64MaxMag == <<9, 2, 2, 3, 3, 7, 2, 0, 3, 6, 8, 5, 4, 7, 7, 5, 8, 0, 7>>
I64MinMag == <<9, 2, 2, 3, 3, 7, 2, 0, 3, 6, 8, 5, 4, 7, 7, 5, 8, 0, 8>>

IsSigned(ty) == ty \in {"isize", "i64"}
\* does the integer n lie in the range of the integer type ty (64 bit target)
InRange(ty, n) ==
    IF IsSigned(ty)
    THEN IF n.neg THEN MagLeq(n.mag, I64MinMag) ELSE MagLeq(n.mag, I64MaxMag)
    ELSE (~n.neg) /\ MagLeq(n.mag, U64MaxMag)

\* <integer as FromStr>::from_str: an optional sign ('-' only for signed
\* types), then one or more decimal digits, the value within the type's range
ParseInt(ty, text) ==
    LET signed == Len(text) > 0 /\ text[1] \in {"+", "-"}
        body == IF signed THEN Tail(text) ELSE text
        neg == signed /\ text[1] = "-"
        mag == StripZeros([i \in 1..Len(body) |-> DigitVal(body[i])])
        n == [neg |-> neg /\ mag # <<0>>, mag |-> mag]
    IN  IF body = <<>> THEN Err
        ELSE IF \E i \in 1..Len(body) : body[i] \notin DigitChars THEN Err
        ELSE IF neg /\ ~IsSigned(ty) THEN Err
        ELSE IF ~InRange(ty, [neg |-> neg, mag |-> mag]) THEN Err
        ELSE Ok(n)

\* <integer as Display>::fmt
DisplayInt(n) ==
    (IF n.neg THEN <<"-">> ELSE <<>>) \o [i \in 1..Len(n.mag) |-> Digits[n.mag[i] + 1]]

\* --------------------------------------------------------------------- Uuid
\* A Uuid is one of MaxUuid distinct identifiers; its text form is the letter
\* u followed by its number.
Uuids == 1..MaxUuid
DisplayUuid(u) == <<"u">> \o DisplayInt(Num(u))
ParseUuid(text) ==
    IF \E u \in Uuids : DisplayUuid(u) = text
    THEN Ok(CHOOSE u \in Uuids : DisplayUuid(u) = text)
    ELSE Err

\* ------------------------------------------------------------ leaf values
\* T as FromStr and T as Display, for the leaf types of the document
Parse(ty, text) ==
    CASE ty = "String" -> Ok(text)
      [] ty = "Uuid" -> ParseUuid(text)
      [] OTHER -> ParseInt(ty, text)
Display(ty, v) ==
    CASE ty = "String" -> v
      [] ty = "Uuid" -> DisplayUuid(v)
      [] OTHER -> DisplayInt(v)

\* ------------------------------------------------------------ the document
\* the leaf types of the structs Config, Paths, Flaskbender, RabbitMQ,
\* Janitor and Worker; a leaf is named by its path <<section, field>>
Sections == <<"paths", "flaskbender", "rabbitmq", "janitor", "worker">>
FieldType ==
    [paths |-> [config |-> "String", private |-> "String", upload |-> "String"],
     flaskbender |-> [upload_limit |-> "usize", upload_url |-> "String",
                      job_cookie_name |-> "String"],
     rabbitmq |-> [url |-> "String"],
     janitor |-> [checking_period_seconds |-> "usize",
                  error_deletion_min_minutes |-> "usize",
                  error_deletion_max_minutes |-> "usize",
                  finish_deletion_min_minutes |-> "usize",
                  finish_deletion_max_minutes |-> "usize",
                  cancel_deletion_min_minutes |-> "usize",
                  cancel_deletion_max_minutes |-> "usize"],
     worker |-> [id |-> "Uuid", disklimit |-> "u64", grace_period |-> "u64",
                 workload |-> "usize", heart_rate_seconds |-> "isize"]]
ServernamePath == <<"servername">>
SectionPaths(s) == {<<s, f>> : f \in DOMAIN FieldType[s]}
AllPaths == {ServernamePath} \cup UNION {SectionPaths(Sections[i]) : i \in 1..Len(Sections)}
TypeOf(p) == IF p = ServernamePath THEN "String" ELSE FieldType[p[1]][p[2]]
Get(c, p) == IF p = ServernamePath THEN c.servername ELSE c[p[1]][p[2]]
Set(c, p, v) ==
    IF p = ServernamePath THEN [c EXCEPT !.servername = v]
    ELSE [c EXCEPT ![p[1]][p[2]] = v]

\* impl Default for Paths / Flaskbender / RabbitMQ / Janitor / Worker / Config;
\* uuid is the value Uuid::new_v4() returns inside Worker::default()
PathsDefault ==
    [config |->
        <<"/", "e", "t", "c", "/", "b", "e", "n", "d", "e", "r", "/", "c", "o", "n", "f", "i", "g", ".", "t", "o", "m", "l">>,
     private |->
        <<"/", "v", "a", "r", "/", "l", "i", "b", "/", "f", "l", "a", "s", "k", "/", "p", "r", "i", "v", "a", "t", "e">>,
     upload |->
        <<"/", "d", "a", "t", "a", "/", "b", "e", "n", "d", "e", "r">>]
FlaskbenderDefault ==
    [upload_limit |-> Num(2),
     upload_url |->
        <<"h", "t", "t", "p", ":", "/", "/", "l", "o", "c", "a", "l", "h", "o", "s", "t", ":", "5", "0", "0", "0", "/", "b", "l", "e", "n", "d", "f", "i", "l", "e", "s", "/">>,
     job_cookie_name |->
        <<"b", "e", "n", "d", "e", "r", "-", "r", "e", "n", "d", "e", "r", "j", "o", "b", "s">>]
RabbitMQDefault ==
    [url |->
        <<"a", "m", "q", "p", ":", "/", "/", "l", "o", "c", "a", "l", "h", "o", "s", "t", "/", "/">>]
JanitorDefault ==
    [checking_period_seconds |-> Num(60),
     error_deletion_min_minutes |-> Num(60*24),
     error_deletion_max_minutes |-> Num(60*24*14),
     finish_deletion_min_minutes |-> Num(60*24),
     finish_deletion_max_minutes |-> Num(60*24*14),
     cancel_deletion_min_minutes |-> Num(15),
     cancel_deletion_max_minutes |-> Num(15)]
WorkerDefault(uuid) ==
    [id |-> uuid, disklimit |-> Num(2), grace_period |-> Num(60),
     workload |-> Num(1), heart_rate_seconds |-> Num(10)]
ConfigDefault(uuid) ==
    [servername |->
        <<"b", "e", "n", "d", "e", "r", ".", "r", "e", "n", "d", "e", "r">>,
     paths |-> PathsDefault,
     flaskbender |-> FlaskbenderDefault,
     rabbitmq |-> RabbitMQDefault,
     janitor |-> JanitorDefault,
     worker |-> WorkerDefault(uuid)]

\* ------------------------------------------------------------------- TOML
\* The text form of the document: one line per leaf, [t |-> table ("" at the
\* top level), k |-> key, v |-> the text of the value].  A string is written
\* the way the toml crate writes it (pretty: as a literal string where that
\* is possible; otherwise as a basic string with escapes), an integer in
\* decimal.
Quote == "'"
DQuote == "\""
Backslash == "\\"
RECURSIVE Escape(_)
Escape(s) ==
    IF s = <<>> THEN <<>>
    ELSE (IF Head(s) \in {DQuote, Backslash} THEN <<Backslash, Head(s)>> ELSE <<Head(s)>>)
         \o Escape(Tail(s))
HasTripleQuote(s) ==
    \E i \in 1..(Len(s) - 2) : s[i] = Quote /\ s[i + 1] = Quote /\ s[i + 2] = Quote
CanBeLiteral(s) == ~HasTripleQuote(s) /\ (s = <<>> \/ s[Len(s)] # Quote)
EmitStr(pretty, s) ==
    IF pretty /\ CanBeLiteral(s)
    THEN IF \E i \in 1..Len(s) : s[i] = Quote
         THEN <<Quote, Quote, Quote>> \o s \o <<Quote, Quote, Quote>>
         ELSE <<Quote>> \o s \o <<Quote>>
    ELSE <<DQuote>> \o Escape(s) \o <<DQuote>>
\* the value text of a leaf of type ty; a Uuid is written as a string
EmitValue(pretty, ty, v) ==
    CASE ty = "String" -> EmitStr(pretty, v)
      [] ty = "Uuid" -> EmitStr(pretty, DisplayUuid(v))
      [] OTHER -> DisplayInt(v)
\* derive(Serialize) on Config and its sections: every field, in declaration
\* order, the top-level value before the tables
SerializedPaths ==
    <<<<"servername">>,
      <<"paths", "config">>, <<"paths", "private">>, <<"paths", "upload">>,
      <<"flaskbender", "upload_limit">>, <<"flaskbender", "upload_url">>,
      <<"flaskbender", "job_cookie_name">>,
      <<"rabbitmq", "url">>,
      <<"janitor", "checking_period_seconds">>,
      <<"janitor", "error_deletion_min_minutes">>,
      <<"janitor", "error_deletion_max_minutes">>,
      <<"janitor", "finish_deletion_min_minutes">>,
      <<"janitor", "finish_deletion_max_minutes">>,
      <<"janitor", "cancel_deletion_min_minutes">>,
      <<"janitor", "cancel_deletion_max_minutes">>,
      <<"worker", "id">>, <<"worker", "disklimit">>, <<"worker", "grace_period">>,
      <<"worker", "workload">>, <<"worker", "heart_rate_seconds">>>>
Line(p, text) ==
    IF p = ServernamePath THEN [t |-> "", k |-> p[1], v |-> text]
    ELSE [t |-> p[1], k |-> p[2], v |-> text]
\* toml::to_string_pretty(c) (pretty) and toml::to_vec(c)
TomlOf(pretty, c) ==
    [i \in 1..Len(SerializedPaths) |->
        Line(SerializedPaths[i],
             EmitValue(pretty, TypeOf(SerializedPaths[i]), Get(c, SerializedPaths[i])))]

RECURSIVE Unescape(_, _)
\* the rest of a basic string after its opening quote
Unescape(rest, acc) ==
    IF rest = <<>> THEN Err
    ELSE IF Head(rest) = DQuote THEN (IF Tail(rest) = <<>> THEN Ok(acc) ELSE Err)
    ELSE IF Head(rest) = Backslash
         THEN IF Len(rest) >= 2 /\ rest[2] \in {DQuote, Backslash}
              THEN Unescape(Tail(Tail(rest)), Append(acc, rest[2]))
              ELSE Err
    ELSE Unescape(Tail(rest), Append(acc, Head(rest)))
\* a TOML integer: decimal, no leading zero, within i64
TomlInteger(text) ==
    LET n == ParseInt("i64", text)
        signed == Len(text) > 0 /\ text[1] \in {"+", "-"}
        body == IF signed THEN Tail(text) ELSE text
    IN  IF n.ok /\ (Len(body) = 1 \/ body[1] # "0") THEN n ELSE Err
\* a TOML value: [str |-> TRUE, v |-> text] or [str |-> FALSE, v |-> integer]
TomlValue(text) ==
    LET n == Len(text)
    IN  IF n >= 3 /\ SubSeq(text, 1, 3) = <<Quote, Quote, Quote>>
        THEN IF \E i \in 4..(n - 2) : SubSeq(text, i, i + 2) = <<Quote, Quote, Quote>>
             THEN LET e == CHOOSE i \in 4..(n - 2) :
                              /\ SubSeq(text, i, i + 2) = <<Quote, Quote, Quote>>
                              /\ \A j \in 4..(i - 1) :
                                     SubSeq(text, j, j + 2) # <<Quote, Quote, Quote>>
                  IN  IF e + 2 = n THEN Ok([str |-> TRUE, v |-> SubSeq(text, 4, e - 1)])
                      ELSE Err
             ELSE Err
        ELSE IF n >= 1 /\ text[1] = Quote
        THEN IF n >= 2 /\ text[n] = Quote /\ \A i \in 2..(n - 1) : text[i] # Quote
             THEN Ok([str |-> TRUE, v |-> SubSeq(text, 2, n - 1)])
             ELSE Err
        ELSE IF n >= 1 /\ text[1] = DQuote
        THEN LET u == Unescape(Tail(text), <<>>)
             IN  IF u.ok THEN Ok([str |-> TRUE, v |-> u.v]) ELSE Err
        ELSE LET k == TomlInteger(text)
             IN  IF k.ok THEN Ok([str |-> FALSE, v |-> k.v]) ELSE Err
\* Deserialize for a leaf of type ty from a TOML value
LeafOf(ty, text) ==
    LET tv == TomlValue(text)
    IN  IF ~tv.ok THEN Err
        ELSE CASE ty = "String" -> IF tv.v.str THEN Ok(tv.v.v) ELSE Err
               [] ty = "Uuid" -> IF tv.v.str THEN ParseUuid(tv.v.v) ELSE Err
               [] OTHER -> IF (~tv.v.str) /\ InRange(ty, tv.v.v) THEN Ok(tv.v.v) ELSE Err
Present(lines, p) ==
    \E i \in 1..Len(lines) : lines[i].t = Line(p, <<>>).t /\ lines[i].k = Line(p, <<>>).k
TextAt(lines, p) ==
    lines[CHOOSE i \in 1..Len(lines) :
              lines[i].t = Line(p, <<>>).t /\ lines[i].k = Line(p, <<>>).k].v
\* toml::from_str / toml::from_slice into Config (derive(Deserialize) with
\* serde(default)): the leaves present are parsed, the others are taken from
\* Default::default(), whose Worker::default() drew the Uuid u
FromToml(lines, u) ==
    IF \E p \in AllPaths : Present(lines, p) /\ ~LeafOf(TypeOf(p), TextAt(lines, p)).ok
    THEN Err
    ELSE LET leaf(p) == IF Present(lines, p) THEN LeafOf(TypeOf(p), TextAt(lines, p)).v
                        ELSE Get(ConfigDefault(u), p)
         IN  Ok([servername |-> leaf(ServernamePath),
                 paths |-> [f \in DOMAIN FieldType.paths |-> leaf(<<"paths", f>>)],
                 flaskbender |-> [f \in DOMAIN FieldType.flaskbender |-> leaf(<<"flaskbender", f>>)],
                 rabbitmq |-> [f \in DOMAIN FieldType.rabbitmq |-> leaf(<<"rabbitmq", f>>)],
                 janitor |-> [f \in DOMAIN FieldType.janitor |-> leaf(<<"janitor", f>>)],
                 worker |-> [f \in DOMAIN FieldType.worker |-> leaf(<<"worker", f>>)]])

\* ------------------------------------------------------- the wizard's plan
\* What each Dialog impl does, in the order of its statements, on its three
\* paths: "ask" (Dialog::ask), "some" (compare, other = Some(o)) and "none"
\* (compare, other = None).  Asked lists the leaves a path prompts for (ask:
\* with the default its Input offers), Fixed the leaves it sets from a
\* literal, NewV4 the leaves it sets to Uuid::new_v4().
PathsAsked ==
    [ask |-> <<[f |-> "private", default |-> 
                   <<"/", "v", "a", "r", "/", "l", "i", "b", "/", "f", "l", "a", "s", "k", "/", "p", "r", "i", "v", "a", "t", "e">>],
               [f |-> "upload", default |-> 
                   <<"/", "d", "a", "t", "a", "/", "b", "e", "n", "d", "e", "r">>]>>,
     some |-> <<[f |-> "private"], [f |-> "upload"]>>,
     none |-> <<[f |-> "private"], [f |-> "upload"]>>]
\* (variant) Paths::compare without a candidate writes another config path
PathsFixedOff ==
    [ask |-> <<[f |-> "config", v |-> 
                   <<"/", "e", "t", "c", "/", "b", "e", "n", "d", "e", "r", "/", "c", "o", "n", "f", "i", "g", ".", "t", "o", "m", "l">>]>>,
     some |-> <<[f |-> "config", v |-> 
                   <<"/", "e", "t", "c", "/", "b", "e", "n", "d", "e", "r", "/", "c", "o", "n", "f", "i", "g", ".", "t", "o", "m", "l">>]>>,
     none |-> <<[f |-> "config", v |-> 
                   <<"/", "e", "t", "c", "/", "b", "e", "n", "d", "e", "r", "/", "c", "o", "n", "f", "i", "g">>]>>]
PathsFixed ==
    [ask |-> <<[f |-> "config", v |-> 
                   <<"/", "e", "t", "c", "/", "b", "e", "n", "d", "e", "r", "/", "c", "o", "n", "f", "i", "g", ".", "t", "o", "m", "l">>]>>,
     some |-> <<[f |-> "config", v |-> 
                   <<"/", "e", "t", "c", "/", "b", "e", "n", "d", "e", "r", "/", "c", "o", "n", "f", "i", "g", ".", "t", "o", "m", "l">>]>>,
     none |-> <<[f |-> "config", v |-> 
                   <<"/", "e", "t", "c", "/", "b", "e", "n", "d", "e", "r", "/", "c", "o", "n", "f", "i", "g", ".", "t", "o", "m", "l">>]>>]
FlaskbenderAsked ==
    [ask |-> <<[f |-> "upload_limit", default |-> Num(2)],
               [f |-> "job_cookie_name", default |-> 
                   <<"b", "e", "n", "d", "e", "r", "-", "r", "e", "n", "d", "e", "r", "j", "o", "b", "s">>]>>,
     some |-> <<[f |-> "upload_limit"], [f |-> "job_cookie_name"]>>,
     none |-> <<[f |-> "upload_limit"], [f |-> "job_cookie_name"]>>]
FlaskbenderFixed ==
    [ask |-> <<[f |-> "upload_url", v |-> 
                   <<"h", "t", "t", "p", ":", "/", "/", "l", "o", "c", "a", "l", "h", "o", "s", "t", ":", "5", "0", "0", "0", "/", "b", "l", "e", "n", "d", "f", "i", "l", "e", "s", "/">>]>>,
     some |-> <<[f |-> "upload_url", v |-> 
                   <<"h", "t", "t", "p", ":", "/", "/", "l", "o", "c", "a", "l", "h", "o", "s", "t", ":", "5", "0", "0", "0", "/", "b", "l", "e", "n", "d", "f", "i", "l", "e", "s", "/">>]>>,
     none |-> <<[f |-> "upload_url", v |-> 
                   <<"h", "t", "t", "p", ":", "/", "/", "l", "o", "c", "a", "l", "h", "o", "s", "t", ":", "5", "0", "0", "0", "/", "b", "l", "e", "n", "d", "f", "i", "l", "e", "s", "/">>]>>]
\* (variant) RabbitMQ::ask offers another url than RabbitMQ::default sets
RabbitMQAskedOff ==
    [ask |-> <<[f |-> "url", default |-> 
                   <<"a", "m", "q", "p", ":", "/", "/", "l", "o", "c", "a", "l", "h", "o", "s", "t", "/">>]>>,
     some |-> <<[f |-> "url"]>>,
     none |-> <<[f |-> "url"]>>]
RabbitMQAsked ==
    [ask |-> <<[f |-> "url", default |-> 
                   <<"a", "m", "q", "p", ":", "/", "/", "l", "o", "c", "a", "l", "h", "o", "s", "t", "/", "/">>]>>,
     some |-> <<[f |-> "url"]>>,
     none |-> <<[f |-> "url"]>>]
JanitorAsked ==
    [ask |-> <<[f |-> "checking_period_seconds", default |-> Num(60)],
               [f |-> "error_deletion_min_minutes", default |-> Num(60*24)],
               [f |-> "error_deletion_max_minutes", default |-> Num(60*24*14)],
               [f |-> "finish_deletion_min_minutes", default |-> Num(60*24)],
               [f |-> "finish_deletion_max_minutes", default |-> Num(60*24*14)],
               [f |-> "cancel_deletion_min_minutes", default |-> Num(15)],
               [f |-> "cancel_deletion_max_minutes", default |-> Num(15)]>>,
     some |-> <<[f |-> "checking_period_seconds"],
                [f |-> "error_deletion_min_minutes"],
                [f |-> "error_deletion_max_minutes"],
                [f |-> "finish_deletion_min_minutes"],
                [f |-> "finish_deletion_max_minutes"],
                [f |-> "cancel_deletion_min_minutes"],
                [f |-> "cancel_deletion_max_minutes"]>>,
     none |-> <<[f |-> "checking_period_seconds"],
                [f |-> "error_deletion_min_minutes"],
                [f |-> "error_deletion_max_minutes"],
                [f |-> "finish_deletion_min_minutes"],
                [f |-> "finish_deletion_max_minutes"],
                [f |-> "cancel_deletion_min_minutes"],
                [f |-> "cancel_deletion_max_minutes"]>>]
\* (variant) Worker::ask offers another disklimit than Worker::default sets
WorkerAskedOff ==
    [ask |-> <<[f |-> "disklimit", default |-> Num(20)],
               [f |-> "grace_period", default |-> Num(60)],
               [f |-> "workload", default |-> Num(1)],
               [f |-> "heart_rate_seconds", default |-> Num(10)]>>,
     some |-> <<[f |-> "disklimit"], [f |-> "grace_period"], [f |-> "workload"],
                [f |-> "heart_rate_seconds"]>>,
     none |-> <<[f |-> "disklimit"], [f |-> "grace_period"], [f |-> "workload"],
                [f |-> "heart_rate_seconds"]>>]
WorkerAsked ==
    [ask |-> <<[f |-> "disklimit", default |-> Num(2)],
               [f |-> "grace_period", default |-> Num(60)],
               [f |-> "workload", default |-> Num(1)],
               [f |-> "heart_rate_seconds", default |-> Num(10)]>>,
     some |-> <<[f |-> "disklimit"], [f |-> "grace_period"], [f |-> "workload"],
                [f |-> "heart_rate_seconds"]>>,
     none |-> <<[f |-> "disklimit"], [f |-> "grace_period"], [f |-> "workload"],
                [f |-> "heart_rate_seconds"]>>]
WorkerNewV4 == [ask |-> {"id"}, some |-> {"id"}, none |-> {"id"}]

\* impl Dialog for Config: the top-level leaf, its default in ask, and the
\* order in which the sections' dialogs are called
ConfigAsked ==
    [ask |-> [p |-> ServernamePath, default |-> 
                   <<"b", "e", "n", "d", "e", "r", ".", "r", "e", "n", "d", "e", "r">>],
     some |-> [p |-> ServernamePath],
     none |-> [p |-> ServernamePath]]
\* (variant) compare with a candidate walks the janitor before rabbitmq
ConfigSectionsSwapped ==
    [ask |-> <<"paths", "flaskbender", "rabbitmq", "janitor", "worker">>,
     some |-> <<"paths", "flaskbender", "janitor", "rabbitmq", "worker">>,
     none |-> <<"paths", "flaskbender", "rabbitmq", "janitor", "worker">>]
ConfigSections ==
    [ask |-> <<"paths", "flaskbender", "rabbitmq", "janitor", "worker">>,
     some |-> <<"paths", "flaskbender", "rabbitmq", "janitor", "worker">>,
     none |-> <<"paths", "flaskbender", "rabbitmq", "janitor", "worker">>]

Branches == {"ask", "some", "none"}
Asked(b, s) ==
    CASE s = "paths" -> PathsAsked[b]
      [] s = "flaskbender" -> FlaskbenderAsked[b]
      [] s = "rabbitmq" -> RabbitMQAsked[b]
      [] s = "janitor" -> JanitorAsked[b]
      [] s = "worker" -> WorkerAsked[b]
Fixed(b, s) ==
    CASE s = "paths" -> PathsFixed[b]
      [] s = "flaskbender" -> FlaskbenderFixed[b]
      [] OTHER -> <<>>
NewV4(b, s) == IF s = "worker" THEN WorkerNewV4[b] ELSE {}

RECURSIVE SectionSteps(_, _)
\* the leaves the dialogs of the sections ss ask for, in order
SectionSteps(b, ss) ==
    IF ss = <<>> THEN <<>>
    ELSE [i \in 1..Len(Asked(b, Head(ss))) |->
             [p |-> <<Head(ss), Asked(b, Head(ss))[i].f>>,
              entry |-> Asked(b, Head(ss))[i]]]
         \o SectionSteps(b, Tail(ss))
\* the leaves one run of Config::ask / Config::compare asks for, in order
Plan ==
    [b \in Branches |->
        <<[p |-> ConfigAsked[b].p, entry |-> ConfigAsked[b]]>>
        \o SectionSteps(b, ConfigSections[b])]

\* ------------------------------------------------------------------ state
VARIABLES
    mode,       \* "ask": Config::ask() runs; "compare": self.compare(other) runs
    self,       \* Some(the document compare is called on); None in ask
    other,      \* compare's argument: None or Some(candidate document)
    step,       \* index into Plan of the leaf being asked for
    phase,      \* "next", "select" (a Select is open), "input" (an Input is
                \* open) or "done"
    dialog,     \* the open Select or Input
    out,        \* the leaves obtained so far, by path
    ret,        \* Some(the document returned) once the run is over
    term,       \* the transcript of the terminal: what was printed and read
    issued,     \* the Uuids in existence
    overrides,  \* values typed in so far
    cfg,        \* Some(a Config a caller of the library holds)
    toml,       \* Some(what serialize / serialize_to_u8 returned for cfg)
    back,       \* Some(what deserialize / deserialize_from_u8 returned for toml)
    isdef,      \* Some(what cfg.is_default() returned)
    fs,         \* the files and directories the program touches
    probe,      \* Some(what the last call of is_writeable did and returned)
    cmd,        \* the command line of the bender-config process ("none": not
                \* started)
    pc,         \* where that process is: "idle", "confirm" (a Confirmation is
                \* open) or "exit"
    stdout,     \* what the process printed
    status,     \* Some(the exit status of the process)
    called      \* Some(a call of wrap, compareprint or read_changes made on
                \* its own: what it was given and what it did)
wizard == <<mode, self, other, step, phase, dialog, out, ret, term, overrides>>
system == <<fs, probe, cmd, pc, stdout, status>>
library == <<cfg, toml, back, isdef, system, called>>
vars == <<wizard, issued, library>>

\* ----------------------------------------------------------------- inputs
\* a value of the leaf's type other than v
OtherValue(p, v) ==
    CASE TypeOf(p) = "String" -> IF v = <<"a">> THEN <<"b">> ELSE <<"a">>
      [] TypeOf(p) = "Uuid" -> (v % MaxUuid) + 1
      [] OTHER -> IF v = Num(7) THEN Num(8) ELSE Num(7)
RECURSIVE Variants(_, _)
\* the documents that differ from d in at most k leaves
Variants(d, k) ==
    IF k = 0 THEN {d}
    ELSE LET prev == Variants(d, k - 1)
         IN  prev \cup {Set(e, p, OtherValue(p, Get(d, p))) : e \in prev, p \in AllPaths}
RECURSIVE SetAll(_, _)
SetAll(d, ps) ==
    IF ps = {} THEN d
    ELSE LET p == CHOOSE q \in ps : TRUE
         IN  SetAll(Set(d, p, OtherValue(p, Get(d, p))), ps \ {p})
\* the documents compare is called on: the default one and one that holds no
\* default value at all
CurrentDocs == {ConfigDefault(1), SetAll(ConfigDefault(1), AllPaths)}
\* the lines the operator types: nothing, a number with a leading zero, a
\* negative number, and a word
Keyboard == {<<>>, <<"0", "7">>, <<"-", "1">>, <<"x">>}

NoDialog == [kind |-> "none"]
\* a file or directory: kind "missing", "dir" or "file"; w: may the process
\* write to it (a directory: create and remove entries); data: its content
Node(kind, w, data) == [kind |-> kind, w |-> w, data |-> data]
Missing == Node("missing", FALSE, <<>>)
\* no file system and no process in view
NoSystem ==
    /\ fs = [folder |-> Missing, config |-> Missing, private |-> Missing,
             secret |-> Missing, rootw |-> FALSE]
    /\ probe = None /\ cmd = "none" /\ pc = "idle" /\ stdout = <<>> /\ status = None
    /\ called = None
EmptyOut == [p \in {} |-> <<>>]

Init ==
    /\ mode \in {"ask", "compare"}
    /\ IF mode = "ask"
       THEN self = None /\ other = None
       ELSE \E d \in CurrentDocs :
                /\ self = Some(d)
                /\ other \in {None} \cup {Some(o) : o \in Variants(d, MaxDiff)}
    /\ step = 1
    /\ phase = "next"
    /\ dialog = NoDialog
    /\ out = EmptyOut
    /\ ret = None
    /\ term = <<>>
    /\ issued = {Unwrap(x).worker.id : x \in {self, other} \ {None}}
    /\ overrides = 0
    /\ cfg = None /\ toml = None /\ back = None /\ isdef = None
    /\ NoSystem

\* --------------------------------------------------------------- the banner
\* A usize is kept as an integer: a negative n stands for 2^64 + n, which is
\* what a subtraction below zero leaves in a build without overflow checks.
\* A build with overflow checks panics there instead.
Builds == {"debug", "release"}
\* a - b on usize; None stands for the panic
Sub(a, b, build) ==
    IF a >= 0 /\ a < b THEN (IF build = "debug" THEN None ELSE Some(a - b))
    ELSE Some(a - b)
\* the characters UTF-8 writes in two bytes
Wide == {"é"}
Utf8Len(c) == IF c \in Wide THEN 2 ELSE 1
\* s.as_bytes(): byte i of character c is <<c, i>>
RECURSIVE AsBytes(_)
AsBytes(s) ==
    IF s = <<>> THEN <<>>
    ELSE [i \in 1..Utf8Len(Head(s)) |-> <<Head(s), i>>] \o AsBytes(Tail(s))
\* .chunks(w) for w # 0: a w of 2^64 + n is longer than any text
RECURSIVE Chunks(_, _)
Chunks(b, w) ==
    IF b = <<>> THEN <<>>
    ELSE IF w < 0 \/ Len(b) <= w THEN <<b>>
    ELSE <<SubSeq(b, 1, w)>> \o Chunks(SubSeq(b, w + 1, Len(b)), w)
\* str::from_utf8 on a chunk of the bytes of a text: Ok when the chunk
\* neither starts nor ends inside a character
IsFirstByte(byte) == byte[2] = 1
Utf8Ok(chunk) ==
    /\ IsFirstByte(chunk[1])
    /\ chunk[Len(chunk)][2] = Utf8Len(chunk[Len(chunk)][1])
\* st.unwrap().to_string()
RECURSIVE Decoded(_)
Decoded(chunk) ==
    IF chunk = <<>> THEN <<>>
    ELSE (IF IsFirstByte(Head(chunk)) THEN <<Head(chunk)[1]>> ELSE <<>>) \o Decoded(Tail(chunk))
RECURSIVE Collect(_)
Collect(chunks) ==
    IF chunks = <<>> THEN <<>>
    ELSE (IF Utf8Ok(Head(chunks)) THEN <<Decoded(Head(chunks))>> ELSE <<>>)
         \o Collect(Tail(chunks))
\* wrap(s, w): Some(the lines), or None for the panic of chunks(0)
Wrap(s, w) ==
    IF w = 0 THEN None ELSE Some(Collect(Chunks(AsBytes(s), w)))
\* " ".repeat(n): None for the panic on a capacity beyond isize::MAX
Repeat(n) == IF n < 0 THEN None ELSE Some(n)
\* leftdots / rightdots
DotsFor(lines) == IF Len(lines) > 1 THEN <<".", ".", ".">> ELSE <<>>
\* halfwidth - line.chars().count() - dots.chars().count(), then repeat
Spacer(halfwidth, line, dots, build) ==
    IF Sub(halfwidth, Len(line), build) = None THEN None
    ELSE IF Sub(Unwrap(Sub(halfwidth, Len(line), build)), Len(dots), build) = None THEN None
    ELSE Repeat(Unwrap(Sub(Unwrap(Sub(halfwidth, Len(line), build)), Len(dots), build)))
\* the println of compareprint for the wrapped sides; lines[1] of no lines
\* is the panic of left[0] / right[0]
Println(left, right, halfwidth, sign, build) ==
    IF left = <<>> \/ right = <<>> THEN None
    ELSE IF Spacer(halfwidth, left[1], DotsFor(left), build) = None THEN None
    ELSE IF Spacer(halfwidth, right[1], DotsFor(right), build) = None THEN None
    ELSE Some([left |-> left[1] \o DotsFor(left),
               leftspacer |-> Unwrap(Spacer(halfwidth, left[1], DotsFor(left), build)),
               sign |-> sign,
               rightspacer |-> Unwrap(Spacer(halfwidth, right[1], DotsFor(right), build)),
               right |-> right[1] \o DotsFor(right)])
\* halfwidth - 4, the width of a side
Column(halfwidth, build) == Sub(halfwidth, 4, build)
\* compareprint once halfwidth is known
Sides(left, right, halfwidth, sign, build) ==
    IF Column(halfwidth, build) = None THEN None
    ELSE IF Unwrap(Column(halfwidth, build)) = 0 THEN None
    ELSE Println(Unwrap(Wrap(left, Unwrap(Column(halfwidth, build)))),
                 Unwrap(Wrap(right, Unwrap(Column(halfwidth, build)))),
                 halfwidth, sign, build)
\* (variant) the width is not halved
HalfwidthWhole(w, sign, build) == Sub(w, Len(sign) \div 2, build)
\* w/2 - sign.chars().count()/2
Halfwidth(w, sign, build) == Sub(w \div 2, Len(sign) \div 2, build)
\* compareprint(left, right, w, sign): Some(the line printed), or None for a
\* panic
Compareprint(left, right, w, sign, build) ==
    IF Halfwidth(w, sign, build) = None THEN None
    ELSE Sides(left, right, Unwrap(Halfwidth(w, sign, build)), sign, build)
\* the separator differ passes
StrNotEqual == <<"!", "=">>
\* what width() may return: the columns of the terminal, read at every call
Widths == 0..MaxCols

\* --------------------------------------------------------------- the wizard
Branch == IF mode = "ask" THEN "ask" ELSE IF IsSome(other) THEN "some" ELSE "none"
Cur == Plan[Branch][step]
\* (variant) paths.private is compared with the candidate's paths.upload
ThatOfCrossed(p) == IF p = <<"paths", "private">> THEN <<"paths", "upload">> ELSE p
\* the leaf of self and the leaf of other (o) that compare hands to differ for
\* the leaf p of its result: self.paths.compare(Some(&o.paths)),
\* differ(self.private.clone(), Some(o.private.clone())), ...
ThisOf(p) == p
ThatOf(p) == p
\* differ's arguments for the current leaf
This == Get(Unwrap(self), ThisOf(Cur.p))
\* (variant) compare hands None to differ although it has a candidate
OptThatDropped == None
OptThat == IF IsSome(other) THEN Some(Get(Unwrap(other), ThatOf(Cur.p))) ELSE None

Event(ev, p, data) == [ev |-> ev, p |-> p, data |-> data]
\* (variant) RabbitMQ's dialogs do not print their section label
HeaderSkipped ==
    IF step > 1 /\ Plan[Branch][step - 1].p[1] # Cur.p[1] /\ Cur.p[1] # "rabbitmq"
    THEN <<Event("section", <<Cur.p[1]>>, <<>>)>>
    ELSE <<>>
\* print_sectionlabel at the top of a section's ask / compare
Header ==
    IF step > 1 /\ Plan[Branch][step - 1].p[1] # Cur.p[1]
    THEN <<Event("section", <<Cur.p[1]>>, <<>>)>>
    ELSE <<>>
\* is the current leaf the last one its section's dialog asks for
LastOfSection ==
    /\ Cur.p # ServernamePath
    /\ step = Len(Plan[Branch]) \/ Plan[Branch][step + 1].p[1] # Cur.p[1]
NeedsUuid == LastOfSection /\ NewV4(Branch, Cur.p[1]) # {}

\* (variant) the Worker literal keeps the id of the document compare is called on
WorkerIdKept(u) == IF mode = "compare" THEN Unwrap(self).worker.id ELSE u
\* the id of the Worker literal: Uuid::new_v4(), which returned u
WorkerId(u) == u

\* the struct literal at the end of a section's dialog: the leaves asked for,
\* the literals, and the new Uuid u
Built(v, u) ==
    LET s == Cur.p[1]
        fx == Fixed(Branch, s)
        asked == (Cur.p :> v) @@ out
    IN  IF ~LastOfSection THEN asked
        ELSE [q \in {<<s, f>> : f \in NewV4(Branch, s)} |-> WorkerId(u)]
             @@ [q \in {<<s, fx[i].f>> : i \in 1..Len(fx)} |->
                    fx[CHOOSE i \in 1..Len(fx) : fx[i].f = q[2]].v]
             @@ asked
\* the struct literal at the end of Config::ask / Config::compare
Assemble(o) ==
    [servername |-> o[ServernamePath],
     paths |-> [f \in DOMAIN FieldType.paths |-> o[<<"paths", f>>]],
     flaskbender |-> [f \in DOMAIN FieldType.flaskbender |-> o[<<"flaskbender", f>>]],
     rabbitmq |-> [f \in DOMAIN FieldType.rabbitmq |-> o[<<"rabbitmq", f>>]],
     janitor |-> [f \in DOMAIN FieldType.janitor |-> o[<<"janitor", f>>]],
     worker |-> [f \in DOMAIN FieldType.worker |-> o[<<"worker", f>>]]]

\* the current leaf is v: go on with the next leaf, or return the document
Return(v, log) ==
    \E u \in IF NeedsUuid THEN Uuids \ issued ELSE {0} :
        /\ out' = Built(v, u)
        /\ issued' = IF NeedsUuid THEN issued \cup {u} ELSE issued
        /\ term' = term \o log
        /\ dialog' = NoDialog
        /\ step' = step + 1
        /\ IF step = Len(Plan[Branch])
           THEN phase' = "done" /\ ret' = Some(Assemble(out'))
           ELSE phase' = "next" /\ ret' = ret
        /\ UNCHANGED <<mode, self, other>>

\* dialoguer's Input::<T>::new().default(d).interact() is opened
OpenInput(d, log) ==
    /\ dialog' = [kind |-> "input", initial |-> d, refused |-> None]
    /\ phase' = "input"
    /\ term' = term \o log \o <<Event("input", Cur.p, <<Display(TypeOf(Cur.p), d)>>)>>
    /\ UNCHANGED <<mode, self, other, step, out, ret, issued>>
\* dialoguer's Select::new().item(..)...default(0).interact() is opened
OpenSelect(items, log) ==
    /\ dialog' = [kind |-> "select", items |-> items, default |-> 0]
    /\ phase' = "select"
    /\ term' = term \o log \o <<Event("select", Cur.p, items)>>
    /\ UNCHANGED <<mode, self, other, step, out, ret, issued>>

StrKeep == <<"K", "e", "e", "p">>
StrManualOverride ==
    <<"M", "a", "n", "u", "a", "l", " ", "o", "v", "e", "r", "r", "i", "d", "e">>

\* (variant) differ prompts for equal values too
DiffersAlways(this, that) == TRUE
\* differ's test this != that
Differs(this, that) == this # that
\* the items of differ's two Selects
ItemsSome(ty, this, that) == <<Display(ty, this), Display(ty, that), StrManualOverride>>
ItemsNone == <<StrKeep, StrManualOverride>>
\* (variant) the arms for current and candidate are exchanged
MatchSomeSwapped(choice, this, that) ==
    CASE choice = 2 -> None
      [] choice = 1 -> Some(this)
      [] OTHER -> Some(that)
\* (variant) every choice opens the Input
MatchNoneAlwaysInput(choice, this) == None
\* differ's match on the choice, with a candidate and without: None stands
\* for the arm that opens the Input
MatchSome(choice, this, that) ==
    CASE choice = 2 -> None
      [] choice = 1 -> Some(that)
      [] OTHER -> Some(this)
MatchNone(choice, this) ==
    CASE choice = 1 -> None
      [] OTHER -> Some(this)
\* (variant) a line that does not parse yields the default
InputLineDefaulting(ty, initial, text) ==
    IF Parse(ty, text).ok /\ text # <<>> THEN Some(Parse(ty, text).v) ELSE Some(initial)
\* one line read by dialoguer's Input::<T> with a default: Some(the value it
\* returns), or None when it shows the parse error and reads again
InputLine(ty, initial, text) ==
    IF text = <<>> THEN Some(initial)
    ELSE IF Parse(ty, text).ok THEN Some(Parse(ty, text).v)
    ELSE None

\* (variant) a dialog that cannot be shown yields the value it offers
ExpectOffered(offered) == Some(offered)
\* .expect("Couldn't display dialog.") on the Err of interact(): None stands
\* for the panic
Expect(offered) == None

\* compareprint panics inside differ: the run ends before the Select
Abort(log) ==
    /\ phase' = "panic"
    /\ dialog' = NoDialog
    /\ term' = term \o log \o <<Event("aborted", Cur.p, <<>>)>>
    /\ UNCHANGED <<mode, self, other, step, out, ret, issued>>

\* Config::ask, Paths::ask, ... : the next Input of the ask path
AskPrompt ==
    /\ mode = "ask" /\ phase = "next"
    /\ OpenInput(Cur.entry.default, Header)
    /\ UNCHANGED <<overrides, library>>

\* wizard::differ(this, opt_that), up to its first prompt (or its return when
\* there is none), after the print_block of the compare path
Differ ==
    /\ mode = "compare" /\ phase = "next"
    /\ LET ty == TypeOf(Cur.p)
           block == Header \o <<Event("block", Cur.p, <<>>)>>
       IN  IF IsSome(OptThat)
           THEN IF Differs(This, Unwrap(OptThat))
                THEN \E w \in Widths, build \in Builds :
                         IF Compareprint(Display(ty, This), Display(ty, Unwrap(OptThat)),
                                         w, StrNotEqual, build) = None
                         THEN Abort(block)
                         ELSE OpenSelect(ItemsSome(ty, This, Unwrap(OptThat)),
                                  block \o <<Event("compareprint", Cur.p,
                                         <<Display(ty, This), Display(ty, Unwrap(OptThat))>>)>>)
                ELSE Return(This, block)
           ELSE OpenSelect(ItemsNone,
                           block \o <<Event("existing", Cur.p, <<Display(ty, This)>>)>>)
    /\ UNCHANGED <<overrides, library>>

\* the operator picks item choice of the open Select; differ's match on it
Choose(choice) ==
    /\ phase = "select"
    /\ choice \in 0..(Len(dialog.items) - 1)
    /\ LET picked == <<Event("picked", Cur.p, <<choice>>)>>
           arm == IF IsSome(OptThat) THEN MatchSome(choice, This, Unwrap(OptThat))
                                     ELSE MatchNone(choice, This)
       IN  IF IsSome(arm)
           THEN Return(Unwrap(arm), picked) /\ overrides' = overrides
           ELSE /\ overrides < MaxOverrides
                /\ overrides' = overrides + 1
                /\ OpenInput(This, picked)
    /\ UNCHANGED library

\* the operator types a line into the open Input
Enter(text) ==
    /\ phase = "input"
    /\ LET read == <<Event("read", Cur.p, <<text>>)>>
           got == InputLine(TypeOf(Cur.p), dialog.initial, text)
           typed == mode = "ask" /\ text # <<>>
       IN  IF IsSome(got)
           THEN /\ typed => overrides < MaxOverrides
                /\ overrides' = IF typed THEN overrides + 1 ELSE overrides
                /\ Return(Unwrap(got), read)
           ELSE /\ dialog' = [dialog EXCEPT !.refused = Some(text)]
                /\ UNCHANGED <<mode, self, other, step, phase, out, ret, term,
                               issued, overrides>>
    /\ UNCHANGED library

\* the terminal cannot be interacted with: interact() of the open Select or
\* Input returns Err
InteractFails ==
    /\ phase \in {"select", "input"}
    /\ LET failed == <<Event("failed", Cur.p, <<>>)>>
           got == Expect(IF dialog.kind = "input" THEN dialog.initial ELSE This)
       IN  IF IsSome(got)
           THEN Return(Unwrap(got), failed)
           ELSE /\ phase' = "panic"
                /\ dialog' = NoDialog
                /\ term' = term \o failed
                /\ UNCHANGED <<mode, self, other, step, out, ret, issued>>
    /\ UNCHANGED <<overrides, library>>

Next ==
    \/ AskPrompt
    \/ Differ
    \/ \E choice \in 0..2 : Choose(choice)
    \/ \E text \in Keyboard : Enter(text)
    \/ InteractFails

Spec == Init /\ [][Next]_vars

\* -------------------------------------------------------------- the library
\* values a caller can store in a leaf (the fields are pub): strings with and
\* without quote characters, integers at the ends of the 64 bit ranges
Pool(ty) ==
    CASE ty = "String" ->
           {<<>>, <<"a", Quote, "b">>, <<"a", Quote>>, <<DQuote, Backslash>>,
            <<Quote, Quote, Quote, "a">>}
      [] ty = "Uuid" -> {2}
      [] ty = "isize" ->
           {Num(-1), [neg |-> TRUE, mag |-> I64MinMag], [neg |-> FALSE, mag |-> I64MaxMag]}
      [] OTHER ->
           {Num(0), [neg |-> FALSE, mag |-> I64MaxMag], [neg |-> FALSE, mag |-> I64MinMag],
            [neg |-> FALSE, mag |-> U64MaxMag]}
RECURSIVE Held(_, _)
\* the documents that differ from d in at most k leaves
Held(d, k) ==
    IF k = 0 THEN {d}
    ELSE LET prev == Held(d, k - 1)
         IN  prev \cup UNION {{Set(e, p, v) : e \in prev, v \in Pool(TypeOf(p))} : p \in AllPaths}

InitLib ==
    /\ mode = "idle" /\ self = None /\ other = None /\ step = 1 /\ phase = "done"
    /\ dialog = NoDialog /\ out = EmptyOut /\ ret = None /\ term = <<>>
    /\ overrides = 0
    /\ cfg \in {None} \cup {Some(d) : d \in Held(ConfigDefault(1), MaxSet)}
    /\ issued = {Unwrap(x).worker.id : x \in {cfg} \ {None}}
    /\ toml = None /\ back = None /\ isdef = None
    /\ NoSystem

\* Config::default(); Worker::default() draws the Uuid u
Default ==
    /\ cfg = None
    /\ \E u \in Uuids \ issued :
           /\ cfg' = Some(ConfigDefault(u))
           /\ issued' = issued \cup {u}
    /\ UNCHANGED <<wizard, called, toml, back, isdef, system>>

\* Config::is_default: self == &Self::default()
IsDefault ==
    /\ IsSome(cfg) /\ isdef = None /\ toml = None
    /\ \E u \in Uuids \ issued :
           /\ isdef' = Some(Unwrap(cfg) = ConfigDefault(u))
           /\ issued' = issued \cup {u}
    /\ UNCHANGED <<wizard, called, cfg, toml, back, system>>

\* Config::serialize
Serialize ==
    /\ IsSome(cfg) /\ toml = None /\ isdef = None
    /\ toml' = Some([form |-> "str", lines |-> TomlOf(TRUE, Unwrap(cfg))])
    /\ UNCHANGED <<wizard, called, issued, cfg, back, isdef, system>>

\* Config::serialize_to_u8
SerializeToU8 ==
    /\ IsSome(cfg) /\ toml = None /\ isdef = None
    /\ toml' = Some([form |-> "u8", lines |-> TomlOf(FALSE, Unwrap(cfg))])
    /\ UNCHANGED <<wizard, called, issued, cfg, back, isdef, system>>

\* Config::deserialize
Deserialize ==
    /\ IsSome(toml) /\ back = None
    /\ Unwrap(toml).form = "str"
    /\ \E u \in Uuids \ issued :
           /\ back' = Some(FromToml(Unwrap(toml).lines, u))
           /\ issued' = issued \cup {u}
    /\ UNCHANGED <<wizard, called, cfg, toml, isdef, system>>

\* Config::deserialize_from_u8
DeserializeFromU8 ==
    /\ IsSome(toml) /\ back = None
    /\ Unwrap(toml).form = "u8"
    /\ \E u \in Uuids \ issued :
           /\ back' = Some(FromToml(Unwrap(toml).lines, u))
           /\ issued' = issued \cup {u}
    /\ UNCHANGED <<wizard, called, cfg, toml, isdef, system>>

NextLib ==
    \/ Default
    \/ IsDefault
    \/ Serialize
    \/ SerializeToU8
    \/ Deserialize
    \/ DeserializeFromU8

SpecLib == InitLib /\ [][NextLib]_vars

\* ------------------------------------------------------ loading stored text
\* the documents whose text was stored: the default one, one that holds no
\* default value, and one whose worker.workload is 2^63
StoredDocs ==
    {ConfigDefault(1), SetAll(ConfigDefault(1), AllPaths),
     Set(ConfigDefault(1), <<"worker", "workload">>, [neg |-> FALSE, mag |-> I64MinMag])}
\* the sets of leaves missing from a stored text: up to MaxAbsent leaves, a
\* whole section, or everything
AbsentSets ==
    {ps \in SUBSET AllPaths : Cardinality(ps) <= MaxAbsent}
    \cup {SectionPaths(Sections[i]) : i \in 1..Len(Sections)}
    \cup {AllPaths}
\* the text without the lines of the leaves ps
Without(lines, ps) ==
    LET keep(l) == \A p \in ps : ~(l.t = Line(p, <<>>).t /\ l.k = Line(p, <<>>).k)
    IN  SelectSeq(lines, keep)

\* a text to_file stored for a document, with some of its fields or sections
\* since removed, is about to be handed to deserialize / deserialize_from_u8
InitLoad ==
    /\ mode = "idle" /\ self = None /\ other = None /\ step = 1 /\ phase = "done"
    /\ dialog = NoDialog /\ out = EmptyOut /\ ret = None /\ term = <<>>
    /\ overrides = 0
    /\ cfg \in {Some(d) : d \in StoredDocs}
    /\ issued = {Unwrap(cfg).worker.id}
    /\ \E form \in {"str", "u8"}, ps \in AbsentSets :
           toml = Some([form |-> form, lines |-> Without(TomlOf(FALSE, Unwrap(cfg)), ps)])
    /\ back = None /\ isdef = None
    /\ NoSystem

NextLoad ==
    \/ Deserialize
    \/ DeserializeFromU8

SpecLoad == InitLoad /\ [][NextLoad]_vars

\* ---------------------------------------------------------- the file system
\* The nodes the program touches: "config" is Config::default().paths.config
\* (/etc/bender/config.toml), "folder" its parent directory, "private" the
\* directory paths.private names and "secret" the file app.secret in it.
\* fs.rootw: may the process create directories where "folder" and "private"
\* belong.  A system call returns [err |-> "" or the io::ErrorKind, fs |-> the
\* file system after it]; bad is the set of calls that fail for other reasons.
Syscalls == {"mkdir", "open", "metadata", "unlink", "create", "write", "read"}
Faults == {bad \in SUBSET Syscalls : Cardinality(bad) <= MaxFaults}
\* the failures that can strike a handler that makes only these calls
FaultsOf(calls) == {bad \in Faults : bad \subseteq calls}
Parent(n) == CASE n = "config" -> "folder" [] n = "secret" -> "private" [] OTHER -> "root"
\* PathBuf::extension(): config.toml and app.secret have one
HasExtension(n) == n \in {"config", "secret"}
CanCreateIn(f, n) ==
    IF Parent(n) = "root" THEN f.rootw
    ELSE f[Parent(n)].kind = "dir" /\ f[Parent(n)].w
Sys(err, f) == [err |-> err, fs |-> f]
\* PathMethods::exists
Exists(f, n) == f[n].kind # "missing"
\* DirBuilder::new().recursive(true).create(n)
CreateDirAll(f, n, bad) ==
    IF f[n].kind = "dir" THEN Sys("", f)
    ELSE IF f[n].kind = "file" THEN Sys("AlreadyExists", f)
    ELSE IF "mkdir" \in bad THEN Sys("Other", f)
    ELSE IF ~CanCreateIn(f, n) THEN Sys("PermissionDenied", f)
    ELSE Sys("", [f EXCEPT ![n] = Node("dir", TRUE, <<>>)])
\* OpenOptions::new().append(true).create(true).open(n)
OpenAppend(f, n, bad) ==
    IF f[Parent(n)].kind # "dir" THEN Sys("Other", f)
    ELSE IF "open" \in bad THEN Sys("Other", f)
    ELSE IF f[n].kind = "dir" THEN Sys("Other", f)
    ELSE IF f[n].kind = "file"
         THEN IF f[n].w THEN Sys("", f) ELSE Sys("PermissionDenied", f)
    ELSE IF ~CanCreateIn(f, n) THEN Sys("PermissionDenied", f)
    ELSE Sys("", [f EXCEPT ![n] = Node("file", TRUE, <<>>)])
\* fs::remove_file(n)
RemoveFile(f, n, bad) ==
    IF "unlink" \in bad THEN Sys("Other", f)
    ELSE IF ~f[Parent(n)].w THEN Sys("PermissionDenied", f)
    ELSE Sys("", [f EXCEPT ![n] = Missing])

\* what a call of is_writeable leaves: its result, the file system, the
\* system calls that failed and how
Probed(res, f, failed) == [res |-> res, fs |-> f, failed |-> failed]
Failure(call, kind) == [call |-> call, kind |-> kind]
\* is_writeable on a file path: folder.pop(); if !folder.exists() { create }
CreateFolder(f, n, bad) ==
    IF ~Exists(f, Parent(n)) THEN CreateDirAll(f, Parent(n), bad) ELSE Sys("", f)
\* the match on the error kind at the end of both arms of is_writeable
MatchKind(kind) ==
    CASE kind = "PermissionDenied" -> Ok(FALSE)
      [] kind = "AlreadyExists" -> Ok(TRUE)
      [] OTHER -> Err
\* PathMethods::is_writeable for the path of node n
IsWriteable(f, n, bad) ==
    IF HasExtension(n)
    THEN LET mk == CreateFolder(f, n, bad)
         IN  IF mk.err # ""
             THEN Probed(Err, mk.fs, <<Failure("mkdir", mk.err)>>)
             ELSE LET file == OpenAppend(mk.fs, n, bad)
                  IN  IF file.err # ""
                      THEN Probed(MatchKind(file.err), file.fs, <<Failure("open", file.err)>>)
                      ELSE IF "metadata" \in bad
                      THEN Probed(Ok(TRUE), file.fs, <<Failure("metadata", "Other")>>)
                      ELSE IF Len(file.fs[n].data) = 0
                      THEN LET rm == RemoveFile(file.fs, n, bad)
                           IN  IF rm.err # ""
                               THEN Probed(Err, rm.fs, <<Failure("unlink", rm.err)>>)
                               ELSE Probed(Ok(TRUE), rm.fs, <<>>)
                      ELSE Probed(Ok(TRUE), file.fs, <<>>)
    ELSE LET mk == CreateDirAll(f, n, bad)
         IN  IF mk.err # ""
             THEN Probed(MatchKind(mk.err), mk.fs, <<Failure("mkdir", mk.err)>>)
             ELSE Probed(Ok(TRUE), mk.fs, <<>>)

\* the texts a config.toml holds: nothing, the default document, and a text
\* whose worker.workload is negative
ConfigTexts ==
    {<<>>, TomlOf(FALSE, ConfigDefault(1)),
     <<Line(<<"worker", "workload">>, <<"-", "1">>)>>}
\* an app.secret: the token generate_appsecret drew
SecretTexts == {<<"token0">>}
\* the file systems a run starts on
FileSystems ==
    {[folder |-> fo, config |-> co, private |-> pr, secret |-> se, rootw |-> rw] :
        fo \in {Missing} \cup {Node("dir", w, <<>>) : w \in BOOLEAN},
        co \in {Missing} \cup {Node("file", w, t) : w \in BOOLEAN, t \in ConfigTexts},
        pr \in {Missing, Node("file", TRUE, <<>>)} \cup {Node("dir", w, <<>>) : w \in BOOLEAN},
        se \in {Missing} \cup {Node("file", w, t) : w \in BOOLEAN, t \in SecretTexts},
        rw \in BOOLEAN}
WellFormed(f) ==
    /\ f.config.kind # "missing" => f.folder.kind = "dir"
    /\ f.secret.kind # "missing" => f.private.kind = "dir"

InitCli ==
    /\ mode = "idle" /\ self = None /\ other = None /\ step = 1 /\ phase = "done"
    /\ dialog = NoDialog /\ out = EmptyOut /\ ret = None /\ term = <<>>
    /\ overrides = 0
    /\ cfg = None /\ toml = None /\ back = None /\ isdef = None
    /\ issued = {1}
    /\ fs \in {f \in FileSystems : WellFormed(f)}
    /\ probe = None /\ cmd = "none" /\ pc = "idle" /\ stdout = <<>> /\ status = None
    /\ called = None

\* nothing has run on the file system yet
Fresh == cmd = "none" /\ probe = None
\* the record of a call of is_writeable on node n that did r
Called(n, r) == Some([path |-> n, before |-> fs, res |-> r.res, failed |-> r.failed])
\* a caller of the library asks whether the path of node n is writeable
IsWriteableCall(n, bad) ==
    /\ Fresh
    /\ LET r == IsWriteable(fs, n, bad)
       IN  /\ probe' = Called(n, r)
           /\ fs' = r.fs
    /\ UNCHANGED <<wizard, called, issued, cfg, toml, back, isdef, cmd, pc, stdout, status>>

\* ------------------------------------------------------ the library's files
\* File::create(n): the file is created or truncated
CreateFile(f, n, bad) ==
    IF f[Parent(n)].kind # "dir" THEN Sys("Other", f)
    ELSE IF "create" \in bad THEN Sys("Other", f)
    ELSE IF f[n].kind = "dir" THEN Sys("Other", f)
    ELSE IF f[n].kind = "file"
         THEN IF f[n].w THEN Sys("", [f EXCEPT ![n].data = <<>>])
              ELSE Sys("PermissionDenied", f)
    ELSE IF ~CanCreateIn(f, n) THEN Sys("PermissionDenied", f)
    ELSE Sys("", [f EXCEPT ![n] = Node("file", TRUE, <<>>)])
\* file.write_all(data)
WriteAll(f, n, data, bad) ==
    IF "write" \in bad THEN Sys("Other", f) ELSE Sys("", [f EXCEPT ![n].data = data])
\* Config::from_file: File::open, read_to_string, deserialize
FromFile(f, n, bad, u) ==
    IF f[n].kind # "file" \/ "read" \in bad THEN Err ELSE FromToml(f[n].data, u)
\* Config::to_file: File::create, serialize_to_u8, write_all
ToFile(f, n, c, bad) ==
    LET file == CreateFile(f, n, bad)
    IN  IF file.err # "" THEN file ELSE WriteAll(file.fs, n, TomlOf(FALSE, c), bad)
\* Config::write_changes of a document whose paths.config is the default one
WriteChanges(f, c, bad) == ToFile(f, "config", c, bad)
\* Config::appsecret_exists
AppsecretExists(f) == Exists(f, "secret")
\* Config::generate_appsecret: a token no app.secret holds yet
GenerateAppsecret == <<"token1">>
\* Config::write_appsecret: File::create, generate_appsecret, write_all
WriteAppsecret(f, bad) ==
    LET file == CreateFile(f, "secret", bad)
    IN  IF file.err # "" THEN file ELSE WriteAll(file.fs, "secret", GenerateAppsecret, bad)

\* ------------------------------------------------------- the command line
\* a line the process prints: its label (" Error ", "  OK  " or none), what
\* it says, and the document it shows
MsgWith(label, text, data) == [label |-> label, msg |-> text, data |-> data]
Msg(label, text) == MsgWith(label, text, <<>>)
\* is_writeable's println before it creates the folder of a file path
Trying(f, n) ==
    IF HasExtension(n) /\ ~Exists(f, Parent(n))
    THEN <<Msg("", "Trying to create path to")>> ELSE <<>>
\* the process returns from main / panics
Exit(code) == pc' = "exit" /\ status' = Some(code)
ExitMain == 0
ExitPanic == 101
\* check_config_permission: [res, fs, printed]
CheckConfigPermission(f, bad) ==
    LET r == IsWriteable(f, "config", bad)
    IN  [res |-> r.res, fs |-> r.fs, probe |-> Called("config", r),
         printed |-> Trying(f, "config") \o
             (IF r.res = Ok(TRUE) THEN <<>>
              ELSE IF r.res = Ok(FALSE)
              THEN <<Msg("Error", "you don't have the permissions to write to")>>
              ELSE <<Msg("Error", "while checking permissions on")>>)]
NoConfig == Msg("Error", "there is no config at")
DeserializationFailed == Msg("Error", "Couldn't read the config. Deserialization failed")

\* main with the sole command new: the body of the if is empty
New ==
    /\ Fresh
    /\ cmd' = "new"
    /\ Exit(ExitMain)
    /\ UNCHANGED <<wizard, called, issued, cfg, toml, back, isdef, fs, probe, stdout>>

\* new_default, up to its Confirmation
NewDefault(bad) ==
    /\ Fresh
    /\ cmd' = "new default"
    /\ \E u \in Uuids \ issued :
           /\ cfg' = Some(ConfigDefault(u))
           /\ issued' = issued \cup {u}
    /\ LET chk == CheckConfigPermission(fs, bad)
       IN  /\ fs' = chk.fs
           /\ probe' = chk.probe
           /\ IF chk.res = Ok(TRUE)
              THEN /\ stdout' = stdout \o chk.printed \o
                          <<IF Exists(chk.fs, "config")
                            THEN Msg("", "Do you want to overwrite the config")
                            ELSE Msg("", "Do you want to write the default config")>>
                   /\ pc' = "confirm" /\ status' = status
              ELSE /\ stdout' = stdout \o chk.printed
                   /\ Exit(ExitMain)
    /\ UNCHANGED <<wizard, called, toml, back, isdef>>

\* new_appsecret, up to its Confirmation
NewAppsecret(bad) ==
    /\ Fresh
    /\ cmd' = "new appsecret"
    /\ \E u \in Uuids \ issued :
           /\ issued' = issued \cup {u}
           /\ IF Exists(fs, "config")
              THEN \E c \in {FromFile(fs, "config", bad, u)} :
                       IF c.ok
                       THEN \E r \in {IsWriteable(fs, "private", bad)} :
                                /\ cfg' = Some(c.v)
                                /\ fs' = r.fs
                                /\ probe' = Called("private", r)
                                /\ IF r.res = Ok(TRUE)
                                   THEN /\ stdout' = stdout \o
                                               <<IF AppsecretExists(r.fs)
                                                 THEN Msg("", "Do you want to overwrite the appsecret")
                                                 ELSE Msg("", "Do you want to write the appsecret")>>
                                        /\ pc' = "confirm" /\ status' = status
                                   ELSE /\ stdout' = Append(stdout,
                                               IF r.res = Ok(FALSE)
                                               THEN Msg("Error", "you don't have the permissions to write to")
                                               ELSE Msg("Error", "while checking permissions on"))
                                        /\ Exit(ExitMain)
                       ELSE /\ stdout' = Append(stdout, DeserializationFailed)
                            /\ Exit(ExitMain)
                            /\ UNCHANGED <<cfg, fs, probe>>
              ELSE /\ stdout' = Append(stdout, NoConfig)
                   /\ Exit(ExitMain)
                   /\ UNCHANGED <<cfg, fs, probe>>
    /\ UNCHANGED <<wizard, called, toml, back, isdef>>

\* if Confirmation::new(message).interact().expect("Failed") { .. }
Confirmed(answer) == answer = "yes"
\* the operator answers the Confirmation of new_default / new_appsecret (or
\* the terminal fails and expect("Failed") panics); on yes the file is written
Confirm(answer, bad) ==
    /\ pc = "confirm"
    /\ IF answer = "fail"
       THEN /\ stdout' = Append(stdout, Msg("", "Failed"))
            /\ Exit(ExitPanic)
            /\ fs' = fs
       ELSE IF ~Confirmed(answer)
       THEN /\ stdout' = Append(stdout, Msg("", answer))
            /\ Exit(ExitMain)
            /\ fs' = fs
       ELSE LET w == IF cmd = "new default" THEN WriteChanges(fs, Unwrap(cfg), bad)
                                            ELSE WriteAppsecret(fs, bad)
                ok == IF cmd = "new default" THEN "Wrote default config to"
                                                 ELSE "Wrote appsecret to"
                failed == IF cmd = "new default" THEN "Couldn't write default config to"
                                                     ELSE "Couldn't write appsecret to"
            IN  /\ fs' = w.fs
                /\ stdout' = stdout \o
                       <<Msg("", answer),
                         IF w.err = "" THEN Msg("OK", ok) ELSE Msg("Error", failed)>>
                /\ Exit(ExitMain)
    /\ UNCHANGED <<wizard, called, issued, cfg, toml, back, isdef, probe, cmd>>

\* what show and validate do with the config: read it, serialize it
Serialized(c) ==
    IF c.ok THEN MsgWith("", "config", TomlOf(TRUE, c.v)) ELSE DeserializationFailed
Reread(bad, u) ==
    IF Exists(fs, "config") THEN Serialized(FromFile(fs, "config", bad, u)) ELSE NoConfig
\* show
Show(bad) ==
    /\ Fresh
    /\ cmd' = "show"
    /\ \E u \in Uuids \ issued :
           /\ issued' = issued \cup {u}
           /\ stdout' = Append(stdout, Reread(bad, u))
    /\ Exit(ExitMain)
    /\ UNCHANGED <<wizard, called, cfg, toml, back, isdef, fs, probe>>
\* validate: what it prints for what the read gave
Validated(read) ==
    IF read.label = ""
    THEN Msg("OK", "the config is valid TOML and is a valid bender config")
    ELSE read
Validate(bad) ==
    /\ Fresh
    /\ cmd' = "validate"
    /\ \E u \in Uuids \ issued :
           /\ issued' = issued \cup {u}
           /\ stdout' = Append(stdout, Validated(Reread(bad, u)))
    /\ Exit(ExitMain)
    /\ UNCHANGED <<wizard, called, cfg, toml, back, isdef, fs, probe>>
\* path
PathCommand ==
    /\ Fresh
    /\ cmd' = "path"
    /\ stdout' = Append(stdout, IF Exists(fs, "config") THEN Msg("", "path") ELSE NoConfig)
    /\ Exit(ExitMain)
    /\ UNCHANGED <<wizard, called, issued, cfg, toml, back, isdef, fs, probe>>

NextCli ==
    \/ \E n \in {"config", "private"} :
           \E bad \in FaultsOf({"mkdir", "open", "metadata", "unlink"}) : IsWriteableCall(n, bad)
    \/ New
    \/ \E bad \in FaultsOf({"mkdir", "open", "metadata", "unlink"}) : NewDefault(bad)
    \/ \E bad \in FaultsOf({"read", "mkdir"}) : NewAppsecret(bad)
    \/ \E answer \in {"yes", "no", "fail"} :
           \E bad \in FaultsOf({"create", "write"}) : Confirm(answer, bad)
    \/ \E bad \in FaultsOf({"read"}) : Show(bad)
    \/ \E bad \in FaultsOf({"read"}) : Validate(bad)
    \/ PathCommand

SpecCli == InitCli /\ [][NextCli]_vars

\* ------------------------------------------------- wrap and compareprint
\* the texts handed to wrap and compareprint: of one-byte and two-byte
\* characters, the empty text included
Chars == {"a", "é"}
BannerTexts == UNION {[1..n -> Chars] : n \in 0..MaxText}
InitPrint ==
    /\ mode = "idle" /\ self = None /\ other = None /\ step = 1 /\ phase = "done"
    /\ dialog = NoDialog /\ out = EmptyOut /\ ret = None /\ term = <<>>
    /\ overrides = 0 /\ issued = {}
    /\ cfg = None /\ toml = None /\ back = None /\ isdef = None
    /\ NoSystem

\* wrap(s, w)
WrapCall(s, w) ==
    /\ called = None
    /\ called' = Some([fn |-> "wrap", s |-> s, w |-> w, lines |-> Wrap(s, w)])
    /\ UNCHANGED <<wizard, issued, cfg, toml, back, isdef, system>>
\* compareprint(&left, &right, w, "!=")
CompareprintCall(left, right, w, build) ==
    /\ called = None
    /\ called' = Some([fn |-> "compareprint", left |-> left, right |-> right, w |-> w,
                       sign |-> StrNotEqual, build |-> build,
                       printed |-> Compareprint(left, right, w, StrNotEqual, build)])
    /\ UNCHANGED <<wizard, issued, cfg, toml, back, isdef, system>>

NextPrint ==
    \/ \E s \in BannerTexts, w \in Widths : WrapCall(s, w)
    \/ \E left \in BannerTexts, right \in BannerTexts, w \in Widths, build \in Builds :
           CompareprintCall(left, right, w, build)

SpecPrint == InitPrint /\ [][NextPrint]_vars

\* ----------------------------------------------------------- read_changes
\* the node a path names on the file systems in view: they hold no file but
\* /etc/bender/config.toml and app.secret
NodeOf(path) == IF path = PathsDefault.config THEN "config" ELSE "nowhere"
\* (variant) the assignment leaves paths.config as it was
AssignedButPath(old, new) == [new EXCEPT !.paths.config = old.paths.config]
\* *self = deserialized
Assigned(old, new) == new
\* read_changes after its three ?: [ok, self]
Replaced(c, deserialized) ==
    IF deserialized.ok THEN [ok |-> TRUE, self |-> Assigned(c, deserialized.v)]
    ELSE [ok |-> FALSE, self |-> c]
\* c.read_changes(): File::open(self.paths.config), read_to_string,
\* Self::deserialize, each with ?
ReadChanges(f, c, bad, u) ==
    IF NodeOf(c.paths.config) = "config"
    THEN Replaced(c, FromFile(f, "config", bad, u))
    ELSE Replaced(c, Err)

\* what the config.toml of a run holds: a document write_changes stored, or
\* one of ConfigTexts
ReadTexts == {TomlOf(FALSE, d) : d \in StoredDocs} \cup ConfigTexts
InitRead ==
    /\ mode = "idle" /\ self = None /\ other = None /\ step = 1 /\ phase = "done"
    /\ dialog = NoDialog /\ out = EmptyOut /\ ret = None /\ term = <<>>
    /\ overrides = 0
    /\ cfg \in {Some(d) : d \in StoredDocs}
    /\ issued = {d.worker.id : d \in StoredDocs}
    /\ toml = None /\ back = None /\ isdef = None
    /\ \E co \in {Missing} \cup {Node("file", w, t) : w \in BOOLEAN, t \in ReadTexts} :
           fs = [folder |-> IF co = Missing THEN Missing ELSE Node("dir", TRUE, <<>>),
                 config |-> co, private |-> Missing, secret |-> Missing, rootw |-> FALSE]
    /\ probe = None /\ cmd = "none" /\ pc = "idle" /\ stdout = <<>> /\ status = None
    /\ called = None

\* the holder of cfg calls cfg.read_changes()
ReadChangesCall(bad) ==
    /\ IsSome(cfg)
    /\ IF called = None THEN TRUE ELSE called[1].n < MaxReads
    /\ \E u \in Uuids \ issued :
           \E r \in {ReadChanges(fs, Unwrap(cfg), bad, u)} :
               /\ cfg' = Some(r.self)
               /\ issued' = issued \cup {r.self.worker.id}
               /\ called' = Some([fn |-> "read_changes",
                                  n |-> IF called = None THEN 1 ELSE called[1].n + 1,
                                  before |-> Unwrap(cfg), ok |-> r.ok])
    /\ UNCHANGED <<wizard, toml, back, isdef, system>>

NextRead == \E bad \in FaultsOf({"read"}) : ReadChangesCall(bad)

SpecRead == InitRead /\ [][NextRead]_vars

\* ================================================================ claims
\* what a prompt of differ or of ask leaves in the transcript
PromptEvents == {"compareprint", "existing", "select", "input", "picked", "read"}
\* a comparison against a candidate document is running or has run
Comparing == mode = "compare" /\ IsSome(other)
Current(p) == Get(Unwrap(self), p)
Candidate(p) == Get(Unwrap(other), p)
Result(p) == Get(Unwrap(ret), p)
\* the leaves compare and ask recompute instead of asking for
Recomputed == {<<"worker", "id">>, <<"paths", "config">>, <<"flaskbender", "upload_url">>}

\* C1: differ(v, Some(v)) returns v at once: no comparison banner, no Select
\* and no Input appears for a leaf whose candidate equals its current value.
Thm_C1 ==
    Comparing =>
        /\ \A i \in 1..Len(term) :
               term[i].ev \in PromptEvents => Current(term[i].p) # Candidate(term[i].p)
        /\ \A i \in 1..(step - 1) :
               Current(Plan["some"][i].p) = Candidate(Plan["some"][i].p) =>
                   out[Plan["some"][i].p] = Current(Plan["some"][i].p)
        /\ phase \in {"select", "input"} => Current(Cur.p) # Candidate(Cur.p)
Wit_C1 ==
    /\ Comparing
    /\ \E i \in 1..(step - 1) :
           /\ Current(Plan["some"][i].p) = Candidate(Plan["some"][i].p)
           /\ out[Plan["some"][i].p] = Current(Plan["some"][i].p)
    /\ \E i \in 1..Len(term) : term[i].ev = "compareprint"

\* C2 as stated: c.compare(Some(&c)) shows no prompt and returns a document
\* equal to c in every field.
Claim_C2 ==
    (mode = "compare" /\ other = self /\ phase = "done") =>
        /\ \A i \in 1..Len(term) : term[i].ev \notin PromptEvents
        /\ \A p \in AllPaths : Result(p) = Current(p)
\* C2 as amended: c.compare(Some(&c)) shows no prompt and returns a document
\* equal to c in every field other than worker.id, paths.config and
\* flaskbender.upload_url.
Thm_C2 ==
    (mode = "compare" /\ other = self /\ phase = "done") =>
        /\ \A i \in 1..Len(term) : term[i].ev \notin PromptEvents
        /\ \A p \in AllPaths \ Recomputed : Result(p) = Current(p)
Wit_C2 ==
    /\ mode = "compare" /\ other = self /\ phase = "done"
    /\ Current(ServernamePath) # ConfigDefault(1).servername

\* C3: for a candidate that differs from current the Select has exactly the
\* three items current, candidate, manual override; picking the candidate
\* yields the candidate and picking current yields current.
Thm_C3 ==
    Comparing =>
        /\ phase = "select" =>
               /\ Current(Cur.p) # Candidate(Cur.p)
               /\ Len(dialog.items) = 3
               /\ dialog.items[1] = Display(TypeOf(Cur.p), Current(Cur.p))
               /\ dialog.items[2] = Display(TypeOf(Cur.p), Candidate(Cur.p))
               /\ dialog.items[3] = StrManualOverride
        /\ \A i \in 1..Len(term) :
               (term[i].ev = "picked" /\ term[i].p \in DOMAIN out) =>
                   /\ term[i].data[1] = 1 => out[term[i].p] = Candidate(term[i].p)
                   /\ term[i].data[1] = 0 => out[term[i].p] = Current(term[i].p)
Wit_C3 ==
    /\ Comparing
    /\ \E i \in 1..Len(term) :
           /\ term[i].ev = "picked" /\ term[i].data[1] = 1
           /\ term[i].p \in DOMAIN out
           /\ out[term[i].p] # Current(term[i].p)

\* C4: without a candidate the Select has exactly the two items keep and
\* manual override, keep returns current, and no comparison banner appears.
Thm_C4 ==
    (mode = "compare" /\ other = None) =>
        /\ phase = "select" => dialog.items = <<StrKeep, StrManualOverride>>
        /\ \A i \in 1..Len(term) :
               /\ term[i].ev # "compareprint"
               /\ term[i].ev = "select" => Len(term[i].data) = 2
               /\ (term[i].ev = "picked" /\ term[i].data[1] = 0) =>
                      /\ term[i].p \in DOMAIN out
                      /\ out[term[i].p] = Current(term[i].p)
Wit_C4 ==
    /\ mode = "compare" /\ other = None
    /\ \E i \in 1..Len(term) :
           /\ term[i].ev = "picked" /\ term[i].data[1] = 0
           /\ out[term[i].p] = Current(term[i].p)

\* C5: a line that does not parse into the leaf's type is refused and the
\* same Input stays open; every value an Input returned is the parse of the
\* line that was accepted, or the offered default after an empty line.
Thm_C5 ==
    /\ (phase = "input" /\ IsSome(dialog.refused)) =>
           /\ ~Parse(TypeOf(Cur.p), Unwrap(dialog.refused)).ok
           /\ Cur.p \notin DOMAIN out
           /\ ret = None
    /\ \A i \in 1..Len(term) :
           term[i].ev = "read" =>
               LET p == term[i].p
                   text == term[i].data[1]
               IN  /\ p \in DOMAIN out
                   /\ text # <<>> =>
                          /\ Parse(TypeOf(p), text).ok
                          /\ out[p] = Parse(TypeOf(p), text).v
                   /\ (text = <<>> /\ mode = "compare") => out[p] = Current(p)
Wit_C5 ==
    /\ mode = "compare" /\ phase = "input"
    /\ IsSome(dialog.refused)
    /\ TypeOf(Cur.p) = "usize"

\* C6: the worker id of the document compare returns is a new one: it is
\* neither the current document's id nor the candidate's, whatever was chosen.
Thm_C6 ==
    (mode = "compare" /\ phase = "done") =>
        /\ Result(<<"worker", "id">>) # Current(<<"worker", "id">>)
        /\ IsSome(other) => Result(<<"worker", "id">>) # Candidate(<<"worker", "id">>)
Wit_C6 ==
    /\ mode = "compare" /\ phase = "done"
    /\ other = None /\ overrides = 0

\* C7: the leaves are visited in one fixed order, the same for ask and for
\* compare with and without a candidate, whatever the values and choices.
ClaimedOrder ==
    <<<<"servername">>,
      <<"paths", "private">>, <<"paths", "upload">>,
      <<"flaskbender", "upload_limit">>, <<"flaskbender", "job_cookie_name">>,
      <<"rabbitmq", "url">>,
      <<"janitor", "checking_period_seconds">>,
      <<"janitor", "error_deletion_min_minutes">>,
      <<"janitor", "error_deletion_max_minutes">>,
      <<"janitor", "finish_deletion_min_minutes">>,
      <<"janitor", "finish_deletion_max_minutes">>,
      <<"janitor", "cancel_deletion_min_minutes">>,
      <<"janitor", "cancel_deletion_max_minutes">>,
      <<"worker", "disklimit">>, <<"worker", "grace_period">>,
      <<"worker", "workload">>, <<"worker", "heart_rate_seconds">>>>
ClaimedPos ==
    [p \in {ClaimedOrder[k] : k \in 1..Len(ClaimedOrder)} |->
        CHOOSE k \in 1..Len(ClaimedOrder) : ClaimedOrder[k] = p]
IsLeafEvent(e) == e.ev # "section"
LeafEvents == SelectSeq(term, IsLeafEvent)
Thm_C7 ==
    /\ \A i \in 1..Len(LeafEvents) : LeafEvents[i].p \in DOMAIN ClaimedPos
    /\ LeafEvents # <<>> => ClaimedPos[LeafEvents[1].p] = 1
    /\ \A i \in 1..(Len(LeafEvents) - 1) :
           \/ ClaimedPos[LeafEvents[i + 1].p] = ClaimedPos[LeafEvents[i].p]
           \/ ClaimedPos[LeafEvents[i + 1].p] = ClaimedPos[LeafEvents[i].p] + 1
    /\ phase = "done" => ClaimedPos[LeafEvents[Len(LeafEvents)].p] = Len(ClaimedOrder)
Wit_C7 ==
    /\ phase = "done" /\ Comparing
    /\ \E i \in 1..Len(term) : term[i].ev = "picked"

\* C8 as stated: when every offered default is kept, the document Config::ask
\* returns equals Config::default().
Claim_C8 ==
    (mode = "ask" /\ phase = "done" /\ overrides = 0) =>
        \A u \in Uuids \ issued : Unwrap(ret) = ConfigDefault(u)
\* C8 as amended: when every offered default is kept, the document Config::ask
\* returns equals Config::default() in every field other than worker.id, which
\* is a new Uuid in both; and a leaf whose default was kept holds the default.
Thm_C8 ==
    mode = "ask" =>
        /\ (phase = "done" /\ overrides = 0) =>
               \A u \in Uuids \ issued :
                   /\ \A p \in AllPaths \ {<<"worker", "id">>} :
                          Result(p) = Get(ConfigDefault(u), p)
                   /\ Result(<<"worker", "id">>) \in issued
        /\ \A i \in 1..Len(term) :
               (term[i].ev = "read" /\ term[i].data[1] = <<>>) =>
                   out[term[i].p] = Get(ConfigDefault(1), term[i].p)
Wit_C8 == mode = "ask" /\ phase = "done" /\ overrides = 0

\* the integer leaves hold values TOML can express (at most 2^63 - 1)
Expressible(c) ==
    \A p \in AllPaths :
        TypeOf(p) \in {"usize", "u64"} => MagLeq(Get(c, p).mag, I64MaxMag)

\* C9: deserializing what serialize (serialize_to_u8) returned for a document
\* succeeds and yields a document equal to it.
Claim_C9 == IsSome(back) => Unwrap(back) = Ok(Unwrap(cfg))

\* the round trip of C9 for the documents TOML can express
RoundTripExpressible ==
    (IsSome(back) /\ Expressible(Unwrap(cfg))) => Unwrap(back) = Ok(Unwrap(cfg))
RoundTripFails == IsSome(back) => Expressible(Unwrap(cfg)) \/ ~Unwrap(back).ok

\* C10: is_default() is true for a document produced by Config::default(), and
\* true only for documents whose every leaf holds its default value.
Claim_C10 ==
    IsSome(isdef) =>
        (Unwrap(isdef) <=> \E u \in Uuids : Unwrap(cfg) = ConfigDefault(u))

\* the leaves the text handed to deserialize holds, and the document loaded
Stored(p) == Present(Unwrap(toml).lines, p)
Loaded == Unwrap(back).v
\* the loaded document holds the stored value of every leaf the text holds and
\* the default value of every other leaf (for worker.id: a new Uuid)
Populated ==
    /\ Unwrap(back).ok
    /\ \A p \in AllPaths :
           IF Stored(p) THEN Get(Loaded, p) = Get(Unwrap(cfg), p)
           ELSE IF p = <<"worker", "id">> THEN Get(Loaded, p) \notin {Unwrap(cfg).worker.id}
           ELSE Get(Loaded, p) = Get(ConfigDefault(1), p)

\* C11: deserializing a stored text from which any fields or sections are
\* missing succeeds; every missing leaf takes its default value and every leaf
\* present keeps the stored value.
Claim_C11 == IsSome(back) => Populated

\* C11 for the stored documents TOML can express
PopulatedExpressible == (IsSome(back) /\ Expressible(Unwrap(cfg))) => Populated
\* the failure of C11 needs an unsigned leaf above 2^63 - 1 in the text
LoadFails ==
    (IsSome(back) /\ ~Unwrap(back).ok) =>
        \E p \in AllPaths :
            /\ Stored(p) /\ TypeOf(p) \in {"usize", "u64"}
            /\ ~MagLeq(Get(Unwrap(cfg), p).mag, I64MaxMag)

\* the permission failures and the other failures of the last is_writeable
Denied == {i \in 1..Len(Unwrap(probe).failed) : Unwrap(probe).failed[i].kind = "PermissionDenied"}
OtherFailures == {i \in 1..Len(Unwrap(probe).failed) : Unwrap(probe).failed[i].kind # "PermissionDenied"}
\* C12: is_writeable returns Ok(false) only when a step failed for lack of
\* permission, returns Ok(false) whenever a step (creating the parent
\* directory of a file path included) failed for lack of permission, and
\* returns Err whenever a step failed for another reason.
Claim_C12 ==
    IsSome(probe) =>
        /\ Unwrap(probe).res = Ok(FALSE) => Denied # {}
        /\ Denied # {} => Unwrap(probe).res = Ok(FALSE)
        /\ OtherFailures # {} => Unwrap(probe).res = Err
\* the first part of C12 alone
FalseOnlyWhenDenied == IsSome(probe) => (Unwrap(probe).res = Ok(FALSE) => Denied # {})

\* C13: the command line `new` alone runs the wizard (Config::ask without a
\* prior document, Config::compare with one) and a configuration is assembled.
Claim_C13 ==
    (cmd = "new" /\ pc = "exit") =>
        /\ mode \in {"ask", "compare"}
        /\ IsSome(ret)

\* the lines of the process that carry the Error label
Errors == {i \in 1..Len(stdout) : stdout[i].label = "Error"}
\* C14: a subcommand that hit an error it does not recover from prints a
\* line labelled Error and the process exits with a status other than 0.
Claim_C14 ==
    pc = "exit" =>
        /\ (cmd \in {"show", "validate", "new appsecret"} /\ ~Exists(fs, "config")) =>
               Errors # {}
        /\ Errors # {} => Unwrap(status) # 0
\* the first half of C14: the errors are reported with the label
ErrorsLabelled ==
    pc = "exit" =>
        /\ (cmd \in {"show", "validate", "path", "new appsecret"} /\ ~Exists(fs, "config")) =>
               stdout[Len(stdout)] = NoConfig
        /\ (cmd \in {"show", "validate"} /\ Exists(fs, "config")
                /\ \A u \in Uuids : ~FromFile(fs, "config", {}, u).ok) =>
               stdout[Len(stdout)] = DeserializationFailed
        /\ (cmd = "new default" /\ IsSome(probe) /\ Unwrap(probe).res # Ok(TRUE)) =>
               stdout[Len(stdout)].label = "Error"
\* whatever went wrong, main returns and the status is 0 (101 after a panic)
StatusZero ==
    pc = "exit" =>
        Unwrap(status) = IF stdout # <<>> /\ stdout[Len(stdout)] = Msg("", "Failed")
                         THEN ExitPanic ELSE ExitMain

\* the file a command writes; what a file is: there or not, and its content
Target == IF cmd = "new appsecret" THEN "secret" ELSE "config"
File(f, n) == [kind |-> f[n].kind, data |-> f[n].data]
Content(f, n) == f[n].data
SaidYes == \E i \in 1..Len(stdout) : stdout[i] = Msg("", "yes")
\* C16: new default and new appsecret write config.toml / app.secret only
\* after the operator answered the Confirmation with yes: until then, and
\* after a no or after is_writeable said false, the target is as it was
\* before the command.
Claim_C16 ==
    (cmd \in {"new default", "new appsecret"} /\ IsSome(probe) /\ ~SaidYes) =>
        File(fs, Target) = File(Unwrap(probe).before, Target)

\* what holds of C16: bytes are written to config.toml and app.secret only in
\* the step in which the operator answers yes; the Confirmation asks about
\* overwriting exactly when the target exists at that time; after a no, and
\* after is_writeable said false, no byte of the target has changed.
WritesOnlyAfterYes ==
    /\ [][(Content(fs', "config") # Content(fs, "config")
             \/ Content(fs', "secret") # Content(fs, "secret")) =>
              /\ pc = "confirm"
              /\ stdout'[Len(stdout) + 1] = Msg("", "yes")]_vars
    /\ [](pc = "confirm" =>
              (Exists(fs, Target) <=>
                  stdout[Len(stdout)].msg \in {"Do you want to overwrite the config",
                                               "Do you want to overwrite the appsecret"}))
    /\ []((cmd \in {"new default", "new appsecret"} /\ pc = "exit" /\ IsSome(probe)
              /\ (Unwrap(probe).res = Ok(FALSE) \/ stdout[Len(stdout)] = Msg("", "no"))) =>
              Content(fs, Target) = Content(Unwrap(probe).before, Target))
\* the only change before the yes: an empty target is gone, or is there
TargetEmptied ==
    (cmd \in {"new default", "new appsecret"} /\ IsSome(probe) /\ ~SaidYes
        /\ File(fs, Target) # File(Unwrap(probe).before, Target)) =>
        /\ cmd = "new default"
        /\ Content(fs, Target) = <<>> /\ Content(Unwrap(probe).before, Target) = <<>>

\* C15: when interact() of a Select or an Input fails, the run ends there:
\* the failure is the last thing in the transcript, the leaf has no value, no
\* later leaf is prompted for and no document is returned.
Thm_C15 ==
    /\ \A i \in 1..Len(term) :
           term[i].ev = "failed" =>
               /\ i = Len(term)
               /\ phase = "panic"
               /\ term[i].p = Cur.p
               /\ term[i].p \notin DOMAIN out
    /\ phase = "panic" =>
           /\ ret = None
           /\ term # <<>> /\ term[Len(term)].ev \in {"failed", "aborted"}
           /\ \A i \in (step + 1)..Len(Plan[Branch]) : Plan[Branch][i].p \notin DOMAIN out
Wit_C15 ==
    /\ phase = "panic" /\ mode = "compare" /\ step > 1
    /\ term[Len(term) - 1].ev = "input"
    /\ \E i \in 1..Len(term) : term[i].ev = "picked" /\ term[i].p \in DOMAIN out

\* the place of a section in the run: the server name first
SecPos ==
    [s \in {"servername"} \cup {Sections[i] : i \in 1..Len(Sections)} |->
        IF s = "servername" THEN 0 ELSE CHOOSE i \in 1..Len(Sections) : Sections[i] = s]
\* C17: in ask and in compare, the header of every section comes before every
\* prompt, block and banner of the section's leaves and after all output of
\* the section before it.
Thm_C17 ==
    /\ term # <<>> => term[1].ev # "section" /\ term[1].p = ServernamePath
    /\ \A i \in 1..(Len(term) - 1) :
           IF term[i + 1].ev = "section"
           THEN SecPos[term[i + 1].p[1]] = SecPos[term[i].p[1]] + 1
           ELSE term[i + 1].p[1] = term[i].p[1]
    /\ phase = "done" => SecPos[term[Len(term)].p[1]] = Len(Sections)
Wit_C17 ==
    /\ phase = "done"
    /\ Cardinality({i \in 1..Len(term) : term[i].ev = "section"}) = Len(Sections)
    /\ \E i \in 1..Len(term) : term[i].ev = "read" /\ term[i].p[1] = "rabbitmq"

\* C18: compare shows, offers and returns for a leaf only values of the same
\* leaf: the current one, the candidate's (when there is a candidate), or
\* the one typed in for it; without a candidate every leaf gets the keep /
\* override choice.
Thm_C18 ==
    mode = "compare" =>
        /\ \A i \in 1..Len(term) :
               LET e == term[i]
                   ty == TypeOf(e.p)
               IN  /\ e.ev = "compareprint" =>
                          /\ IsSome(other)
                          /\ e.data = <<Display(ty, Current(e.p)), Display(ty, Candidate(e.p))>>
                   /\ e.ev = "existing" =>
                          other = None /\ e.data = <<Display(ty, Current(e.p))>>
                   /\ e.ev = "select" =>
                          e.data = IF IsSome(other)
                                   THEN <<Display(ty, Current(e.p)), Display(ty, Candidate(e.p)),
                                          StrManualOverride>>
                                   ELSE <<StrKeep, StrManualOverride>>
                   /\ e.ev = "input" => e.data = <<Display(ty, Current(e.p))>>
        /\ \A p \in DOMAIN out \ Recomputed :
               \/ out[p] = Current(p)
               \/ IsSome(other) /\ out[p] = Candidate(p)
               \/ \E i \in 1..Len(term) :
                      /\ term[i].ev = "read" /\ term[i].p = p
                      /\ Parse(TypeOf(p), term[i].data[1]) = Ok(out[p])
Wit_C18 ==
    /\ Comparing /\ phase = "done"
    /\ Current(<<"paths", "private">>) # Candidate(<<"paths", "private">>)
    /\ Candidate(<<"paths", "private">>) # Candidate(<<"paths", "upload">>)
    /\ Result(<<"paths", "private">>) = Candidate(<<"paths", "private">>)

\* C19: paths.config and flaskbender.upload_url are never asked for, and the
\* document a run returns holds "/etc/bender/config.toml" and
\* "http://localhost:5000/blendfiles/" in them, whatever current, candidate
\* and the operator's choices are.
Thm_C19 ==
    /\ \A i \in 1..Len(term) :
           term[i].p \notin {<<"paths", "config">>, <<"flaskbender", "upload_url">>}
    /\ phase = "done" =>
           /\ Result(<<"paths", "config">>) =
                  <<"/", "e", "t", "c", "/", "b", "e", "n", "d", "e", "r", "/",
                    "c", "o", "n", "f", "i", "g", ".", "t", "o", "m", "l">>
           /\ Result(<<"flaskbender", "upload_url">>) =
                  <<"h", "t", "t", "p", ":", "/", "/", "l", "o", "c", "a", "l", "h", "o", "s", "t",
                    ":", "5", "0", "0", "0", "/", "b", "l", "e", "n", "d", "f", "i", "l", "e", "s", "/">>
Wit_C19 ==
    /\ phase = "done" /\ mode = "compare" /\ other = None
    /\ Current(<<"paths", "config">>) = <<"a">>
    /\ Current(<<"flaskbender", "upload_url">>) = <<"a">>

\* C20 as stated: ask obtains every leaf through differ's path without a
\* candidate: the default is shown as the existing value, and a Select
\* offers to keep it or to override it before any Input.
Claim_C20 ==
    mode = "ask" =>
        \A i \in 1..Len(term) :
            term[i].ev = "input" =>
                /\ i > 2
                /\ term[i - 2].ev = "select" /\ term[i - 2].p = term[i].p
                /\ term[i - 2].data = <<StrKeep, StrManualOverride>>
\* C20 as amended: ask obtains every leaf through an Input that offers the
\* leaf's documented default, without the existing-value line and the keep /
\* override Select of differ: an empty line yields the default, another
\* accepted line its parsed value; and keeping a leaf of the default document
\* in compare without a candidate yields the same default.
Thm_C20 ==
    /\ mode = "ask" =>
           /\ \A i \in 1..Len(term) :
                  /\ term[i].ev \in {"section", "input", "read", "failed"}
                  /\ term[i].ev = "input" =>
                         term[i].data =
                             <<Display(TypeOf(term[i].p), Get(ConfigDefault(1), term[i].p))>>
                  /\ term[i].ev = "read" =>
                         out[term[i].p] =
                             IF term[i].data[1] = <<>> THEN Get(ConfigDefault(1), term[i].p)
                             ELSE Parse(TypeOf(term[i].p), term[i].data[1]).v
           /\ phase = "input" => dialog.initial = Get(ConfigDefault(1), Cur.p)
    /\ (mode = "compare" /\ other = None /\ self = Some(ConfigDefault(1))) =>
           \A i \in 1..Len(term) :
               (term[i].ev = "picked" /\ term[i].data[1] = 0) =>
                   out[term[i].p] = Get(ConfigDefault(1), term[i].p)
Wit_C20 ==
    /\ mode = "ask" /\ phase = "done" /\ overrides = 1
    /\ Result(<<"rabbitmq", "url">>) = RabbitMQDefault.url
    /\ Result(<<"worker", "workload">>) = Num(7)

\* the bytes of a text, and the lines of a wrap put together again
ByteLen(s) == Len(AsBytes(s))
RECURSIVE Concat(_)
Concat(lines) == IF lines = <<>> THEN <<>> ELSE Head(lines) \o Concat(Tail(lines))
IsCall(fn) == IsSome(called) /\ Unwrap(called).fn = fn
\* C21: for every text s and every w >= 1 no line of wrap(s, w) is longer
\* than w, and when the length of s is a multiple of w the lines put together
\* are s.
Claim_C21 ==
    (IsCall("wrap") /\ Unwrap(called).w >= 1) =>
        LET c == Unwrap(called)
        IN  /\ IsSome(c.lines)
            /\ \A i \in 1..Len(Unwrap(c.lines)) : ByteLen(Unwrap(c.lines)[i]) <= c.w
            /\ ByteLen(c.s) % c.w = 0 => Concat(Unwrap(c.lines)) = c.s
\* what holds of wrap: no line is longer than w, the lines are pieces of s in
\* order, and a text of one-byte characters comes back whole, whatever w
WrapOfAscii ==
    (IsCall("wrap") /\ Unwrap(called).w >= 1) =>
        LET c == Unwrap(called)
        IN  /\ IsSome(c.lines)
            /\ \A i \in 1..Len(Unwrap(c.lines)) : ByteLen(Unwrap(c.lines)[i]) <= c.w
            /\ (\A i \in 1..Len(c.s) : c.s[i] \notin Wide) => Concat(Unwrap(c.lines)) = c.s
\* a wrap that lost characters although the length is a multiple of w
WrapLoses ==
    /\ IsCall("wrap") /\ Unwrap(called).w = 2
    /\ Unwrap(called).s = <<"a", "é", "a">>
    /\ Unwrap(called).lines = Some(<<>>)

\* C22: whatever the two texts and the width of the terminal, each side
\* compareprint prints (the first line, with the dots when the text was cut)
\* is at most (width - width of the separator) / 2 characters long (and as
\* many bytes at most where no subtraction went below zero).
Thm_C22 ==
    (IsCall("compareprint") /\ IsSome(Unwrap(called).printed)) =>
        LET c == Unwrap(called)
            most == (c.w - Len(c.sign)) \div 2
        IN  /\ Len(Unwrap(c.printed).left) <= most
            /\ Len(Unwrap(c.printed).right) <= most
            /\ c.w >= 12 => /\ ByteLen(Unwrap(c.printed).left) <= most
                            /\ ByteLen(Unwrap(c.printed).right) <= most
Wit_C22 ==
    /\ IsCall("compareprint") /\ IsSome(Unwrap(called).printed)
    /\ Unwrap(called).w = 14
    /\ Unwrap(called).left = <<"a", "a", "a">>
    /\ Unwrap(called).printed[1].left = <<"a", "a", ".", ".", ".">>
    /\ Unwrap(called).printed[1].right = <<"a">>

\* C23: for unequal values, whatever they are and whatever width() returns,
\* differ prints the banner without a panic and the operator gets the Select.
Claim_C23 == \A i \in 1..Len(term) : term[i].ev # "aborted"
\* the same of compareprint on its own, for empty and two-byte texts too
BannerNeverPanics ==
    (IsCall("compareprint") /\ Unwrap(called).left # Unwrap(called).right) =>
        IsSome(Unwrap(called).printed)
\* where the banner is printed: one-byte texts that are not empty on a
\* terminal of 12 columns or more, in either build
BannerPrints ==
    LET c == Unwrap(called)
    IN  (/\ IsCall("compareprint")
         /\ c.w >= 12
         /\ c.left # <<>> /\ c.right # <<>>
         /\ \A i \in 1..Len(c.left) : c.left[i] \notin Wide
         /\ \A i \in 1..Len(c.right) : c.right[i] \notin Wide) => IsSome(c.printed)
\* the panics: an empty text, a terminal under 12 columns
BannerPanics ==
    LET c == Unwrap(called)
    IN  IsCall("compareprint") =>
            /\ (c.left = <<>> \/ c.right = <<>>) => c.printed = None
            /\ c.w \in {10, 11} => c.printed = None
            /\ (c.w < 10 /\ c.build = "debug") => c.printed = None

\* C24: is_writeable on a file path leaves every file that was there before
\* the call in place with its content, whatever its size: the probe removes
\* only a file the call created.
Claim_C24 ==
    (cmd = "none" /\ IsSome(probe) /\ HasExtension(Unwrap(probe).path)) =>
        \A n \in {"config", "secret"} :
            Unwrap(probe).before[n].kind = "file" => fs[n] = Unwrap(probe).before[n]
\* what holds: a file that is not empty is left as it was, and nothing but
\* the probed path is touched
ProbeKeepsNonEmpty ==
    (cmd = "none" /\ IsSome(probe) /\ HasExtension(Unwrap(probe).path)) =>
        \A n \in {"config", "secret"} :
            (/\ Unwrap(probe).before[n].kind = "file"
             /\ Unwrap(probe).before[n].data # <<>> \/ n # Unwrap(probe).path) =>
                fs[n] = Unwrap(probe).before[n]
\* the probe removed a file that was there before it
ProbeRemoved ==
    /\ cmd = "none" /\ IsSome(probe) /\ Unwrap(probe).path = "config"
    /\ Unwrap(probe).before.config = Node("file", TRUE, <<>>)
    /\ fs.config = Missing
    /\ Unwrap(probe).res = Ok(TRUE)

\* C25: read_changes is all or nothing: when the file cannot be opened, read
\* or parsed it returns Err and self is as before in every field; when it
\* succeeds self is the stored document in every field, paths.config
\* included, so that the next call opens the path the file named.
Thm_C25 ==
    IsCall("read_changes") =>
        LET c == Unwrap(called)
        IN  IF c.ok
            THEN /\ c.before.paths.config = PathsDefault.config
                 /\ fs.config.kind = "file"
                 /\ \A d \in StoredDocs :
                        fs.config.data = TomlOf(FALSE, d) => Unwrap(cfg) = d
                 /\ fs.config.data = <<>> =>
                        \E u \in Uuids \ {d.worker.id : d \in StoredDocs} :
                            Unwrap(cfg) = ConfigDefault(u)
            ELSE /\ Unwrap(cfg) = c.before
                 /\ \/ c.before.paths.config # PathsDefault.config
                    \/ fs.config.kind # "file"
                    \/ \E bad \in FaultsOf({"read"}), u \in Uuids :
                           ~FromFile(fs, "config", bad, u).ok
Wit_C25 ==
    /\ IsCall("read_changes") /\ Unwrap(called).ok
    /\ Unwrap(called).before = ConfigDefault(1)
    /\ Unwrap(cfg) = SetAll(ConfigDefault(1), AllPaths)
    /\ Unwrap(cfg).paths.config # PathsDefault.config
\* the call after a successful one opens the path the file named
ReadTargetsStoredPath ==
    (IsCall("read_changes") /\ Unwrap(called).n = 2
        /\ Unwrap(called).before.paths.config # PathsDefault.config) => ~Unwrap(called).ok

====
